---- MODULE Spec2Model ----
(***************************************************************************)
(* Model of the universal-client library: the feature composition engine   *)
(* (universalClient) and the HTTP delegate middleware (wrapHttpDelegate,   *)
(* withInterceptor).                                                       *)
(***************************************************************************)
EXTENDS Integers, Sequences, FiniteSets, TLC

(***************************************************************************)
(* Bounds of the model.                                                    *)
(***************************************************************************)
MaxFeatures == 3

MaxWraps == 2

MaxCallers == 2

MaxTime == 3

MaxCalls == 3

MaxClients == 2

\* WebSockets one delegate creates in a behaviour.
MaxSockets == 4

(***************************************************************************)
(* Values of the composition engine.  An object is a function from a set   *)
(* of own keys to values; values are strings.                              *)
(***************************************************************************)
KeyNames == {"propA", "propB", "onInit"}

PlainValues == {"v1", "v2"}

FunctionValues == {"fn1"}

Values == PlainValues \cup FunctionValues

ErrorValues == {"e1", "e2"}

EmptyObject == [k \in {} |-> "v1"]

\* Mutant: the hook is called whenever the key is present.
IsCallable_AnyDefined(v) == v # "undefined"

\* typeof v === 'function'
IsCallable(v) == v \in FunctionValues

\* Objects with at most one own key: the literal results of simple features.
SmallObjects == {EmptyObject} \cup { [k \in {key} |-> v] : key \in KeyNames, v \in Values }

(***************************************************************************)
(* Features.  A feature is a user function (accumulator) => partial state. *)
(*   const   : () => out                                                   *)
(*   derive  : (input) => ({ propB: `d-${input.propA}` })                  *)
(*   throws  : () => { throw err }                                         *)
(*   methods : withMethods((input) => ({ [name]: () => input... }))        *)
(***************************************************************************)
FeatureSet ==
    { [kind |-> "const", out |-> o, name |-> "propA", err |-> "e1"] : o \in SmallObjects }
    \cup { [kind |-> "derive", out |-> EmptyObject, name |-> "propB", err |-> "e1"] }
    \cup { [kind |-> "throws", out |-> EmptyObject, name |-> "propA", err |-> e] : e \in ErrorValues }
    \cup { [kind |-> "methods", out |-> EmptyObject, name |-> n, err |-> "e1"] : n \in {"propA", "propB"} }

FeatureLists == UNION { [1..n -> FeatureSet] : n \in 0..MaxFeatures }

\* { ...a, ...b }: own keys of b overwrite those of a, the others are kept.
Spread(a, b) == [k \in DOMAIN a \cup DOMAIN b |-> IF k \in DOMAIN b THEN b[k] ELSE a[k]]

\* Mutant: the destructuring keeps the key.
Omit_KeepsKey(obj, key) == obj

\* const { [key]: _, ...rest } = obj
Omit(obj, key) == [k \in DOMAIN obj \ {key} |-> obj[k]]

\* withMethods(methodCreator): (input) => ({ ...methodCreator(input), ...input })
withMethods(name, input) == Spread([k \in {name} |-> "fn1"], input)

FeatureThrows(f) == f.kind = "throws"

\* Whether the feature keeps the reference to its input (a method closing over it).
FeatureKeepsInput(f) == f.kind = "methods"

\* The partial state a feature returns for the accumulator it is handed.
FeatureOutput(f, input) ==
    CASE f.kind = "const" -> f.out
      [] f.kind = "derive" ->
            IF "propA" \in DOMAIN input
            THEN [k \in {"propB"} |-> "d-" \o input["propA"]]
            ELSE EmptyObject
      [] f.kind = "methods" -> withMethods(f.name, input)
      [] OTHER -> EmptyObject

(***************************************************************************)
(* State of one call of universalClient(...withFeatures).                  *)
(***************************************************************************)
VARIABLES
    withFeatures,   \* the argument list
    heap,           \* the objects allocated so far: heap[r] is object r
    accumulator,    \* reference (index in heap) of the reduce accumulator
    index,          \* index of the next feature reduce will call
    cpc,            \* "reduce" | "extract" | "init" | "return" | "returned" | "thrown"
    rest,           \* reference of the object `rest`, 0 before line 78
    onInit,         \* the value destructured as onInit, "undefined" when none
    thrown,         \* the error universalClient threw, "none" when none
    calls,          \* the calls made so far: features and onInit, in order
    inputRefs,      \* inputRefs[k]: the reference feature k was handed
    observation     \* what a feature last read through the reference it kept

composeVars == <<withFeatures, heap, accumulator, index, cpc, rest, onInit, thrown,
                 calls, inputRefs, observation>>

(***************************************************************************)
(* State of an HTTP delegate wrapped by withInterceptor features and of    *)
(* one request through it.  wraps[1] is the wrap made first (innermost),   *)
(* wraps[Len(wraps)] the one made last (outermost).                        *)
(***************************************************************************)
VARIABLES
    delegateKeys,   \* own property names of the delegate before any wrap
    features,       \* number of withInterceptor features applied
    wraps,          \* the interceptors wrapped around the delegate, in order
    request,        \* the caller's call, [method |-> "none"] before it
    frames,         \* frames[k]: the invocation of wrap k's method
    pending,        \* hook promises not settled yet: <<k, hook>>
    transport,      \* the call of the unwrapped delegate's method
    outcome,        \* how the caller's promise settled
    log             \* hooks and transport: calls and settlements, in order

httpVars == <<delegateKeys, features, wraps, request, frames, pending, transport,
              outcome, log>>

(***************************************************************************)
(* State of one request through a delegate wrapped once by the             *)
(* wrapHttpDelegate of src/utils/delegate-middleware.utils.ts, whose after *)
(* hook patches the response.                                              *)
(***************************************************************************)
VARIABLES
    pInterceptor,   \* the hooks of the interceptor: before?, after?, error?
    pPc,            \* "idle" | "awaitBefore" | "awaitOriginal" | "awaitAfter" |
                    \* "awaitError" | "resolved" | "rejected"
    pContext,       \* the request context (line 57, merged at line 62)
    pOriginalArgs,  \* the arguments originalMethod was called with
    pResponse,      \* the local `response` (lines 67 and 75)
    pAfterContext,  \* the argument the after hook was called with
    pAfterResult,   \* what the after hook returned
    pCaught,        \* the error the catch block caught
    pOutcome        \* how the wrapped method's promise settled

patchVars == <<pInterceptor, pPc, pContext, pOriginalArgs, pResponse, pAfterContext,
               pAfterResult, pCaught, pOutcome>>

(***************************************************************************)
(* State of the delegate createLazyHttpDelegate(options) returns and of    *)
(* the calls of its methods.                                               *)
(***************************************************************************)
VARIABLES
    lazyDelegate,   \* `delegate`: "null" or the delegate construction produced
    lazyLoading,    \* `loading`
    lazyError,      \* `error`: "null" or the error construction failed with
    attempts,       \* number of calls of createHttpDelegate(options) so far
    callers         \* callers[c]: one call of a method of the lazy delegate

lazyVars == <<lazyDelegate, lazyLoading, lazyError, attempts, callers>>

(***************************************************************************)
(* State of one use of the delegate factory and of the capability          *)
(* detectors: createDelegate(delegateOrOptions), then the detectors on     *)
(* what it returned, then the first use of a lazily built HTTP delegate.   *)
(***************************************************************************)
VARIABLES
    fInput,         \* the argument of createDelegate
    fPc,            \* "start" | "created" | "detected" | "built"
    fCreated,       \* what createDelegate returned or threw
    fDetected,      \* the answers of the three detectors on the returned object
    fBuilt          \* what createHttpDelegate(options) produced at first use

factoryVars == <<fInput, fPc, fCreated, fDetected, fBuilt>>

(***************************************************************************)
(* State of an HTTP delegate wrapped by withOffline(config): the offline   *)
(* manager's cache, the clock, the network state and one request at a time *)
(* through the wrapped delegate.                                           *)
(***************************************************************************)
VARIABLES
    strategy,       \* config.strategy ?? 'cache-first'
    cacheTTL,       \* config.cacheTTL
    cache,          \* the Map: cache[key] = [data, timestamp, ttl]
    now,            \* Date.now()
    online,         \* navigator.onLine
    offlineCall,    \* the request in progress, or the last one
    offlineOutcome  \* how its promise settled

offlineVars == <<strategy, cacheTTL, cache, now, online, offlineCall, offlineOutcome>>

(***************************************************************************)
(* State of an HTTP delegate wrapped by withEnvironments(config): the      *)
(* environment manager and one request through the wrapped delegate.       *)
(***************************************************************************)
VARIABLES
    envConfig,   \* config: environments (in declaration order), default?, fallback?
    currentEnv,  \* `currentEnv` of createEnvironmentManager
    lastSet,     \* the argument of the last setEnvironment call, "none" before any
    setThrew,    \* TRUE once a setEnvironment call has thrown
    envCall      \* the request in progress or the last one, and what the transport got

envVars == <<envConfig, currentEnv, lastSet, setThrew, envCall>>

(***************************************************************************)
(* State of an HTTP delegate wrapped by withTelemetry(options): the        *)
(* collector, the interceptor's start times and the calls in progress.     *)
(***************************************************************************)
VARIABLES
    enableMetrics,   \* options.enableMetrics
    events,          \* `events` of the collector, in recording order
    metrics,         \* `metrics.requests` of the collector
    startTimes,      \* the operations that have an entry in the Map `startTimes`
    telemetryCalls,  \* telemetryCalls[c]: the call of caller c through the wrapped delegate
    started          \* number of calls started so far

telemetryVars == <<enableMetrics, events, metrics, startTimes, telemetryCalls, started>>

(***************************************************************************)
(* State of the clients built by applying one feature value (withOffline,  *)
(* withTelemetry or withEnvironments) several times, and their managers.   *)
(***************************************************************************)
VARIABLES
    mFeature,   \* which feature the feature value is
    mManagers,  \* the managers created so far: mManagers[m] is the state of manager m
    mClients,   \* mClients[i]: the manager client i exposes and its delegate closes over
    mActor      \* the client the last operation was made on, 0 after an application

managerVars == <<mFeature, mManagers, mClients, mActor>>

(***************************************************************************)
(* State of a WebSocket delegate wrapped by wrapWebSocketDelegate and of   *)
(* the last call of connect, send or close through it.                     *)
(***************************************************************************)
VARIABLES
    wsInterceptor,  \* wsInterceptor[method]: what the before and after hooks of the method do
    wsCall,         \* the last call: its argument, what ran in order, how it ended
    wsRejections,   \* rejected hook promises whose catch(console.error) has not run yet
    wsConsole       \* number of errors console.error has printed

wsVars == <<wsInterceptor, wsCall, wsRejections, wsConsole>>

(***************************************************************************)
(* State of the subscriptions made on a WebSocket or SSE delegate that     *)
(* createDelegate returned.                                                *)
(***************************************************************************)
VARIABLES
    subKind,        \* options.type: "websocket" or "server-sent-event"
    subscriptions   \* the subscription calls made so far, in order

subVars == <<subKind, subscriptions>>

(***************************************************************************)
(* State of an HTTP delegate wrapped by withOffline({ strategy: 'cache-first' }) *)
(* whose methods are called by several callers at once: the calls overlap  *)
(* at the await of the original method.                                    *)
(***************************************************************************)
VARIABLES
    raceCache,           \* the Map of the offline manager
    raceTTL,             \* config.cacheTTL
    raceNow,             \* Date.now()
    raceOnline,          \* navigator.onLine
    raceCalls,           \* raceCalls[c]: the call of caller c
    raceTransportCalls,  \* number of calls of the original method so far
    raceSettled          \* number of those calls that have settled

raceVars == <<raceCache, raceTTL, raceNow, raceOnline, raceCalls, raceTransportCalls, raceSettled>>

(***************************************************************************)
(* State of a telemetry collector, createTelemetryCollector(options), as far *)
(* as the latency figures go: the events recorded and metrics.latency.     *)
(***************************************************************************)
VARIABLES
    latEnabled,  \* options.enableMetrics
    latEvents,   \* `events`: the type and the duration of each recorded event
    latency      \* metrics.latency: avg (as a fraction), min, max

latencyVars == <<latEnabled, latEvents, latency>>

(***************************************************************************)
(* State of the delegate createWebSocketDelegate(options) returns: its     *)
(* closure variables, every WebSocket it has created, the timers it has    *)
(* pending, and what the user and the server have done so far.             *)
(***************************************************************************)
VARIABLES
    socket,                \* `socket`: 0 for null, else the number of the current WebSocket
    sockets,               \* sockets[i]: state of the i-th WebSocket created, who closed it
    reconnectTimer,        \* `reconnectTimer` !== null
    reconnectAttempts,     \* `reconnectAttempts`
    maxReconnectAttempts,  \* options.maxReconnectAttempts
    timers,                \* number of timeouts set and neither fired nor cleared
    userOp,                \* the last call the user made: "create", "connect" or "close"
    dropped                \* TRUE once the server has closed or refused a connection

socketVars == <<socket, sockets, reconnectTimer, reconnectAttempts, maxReconnectAttempts, timers, userOp, dropped>>

(***************************************************************************)
(* State of the delegate createServerSentEventDelegate(options) returns:   *)
(* its listener sets, the handlers added by subscribe, and what the last   *)
(* event of the EventSource did.                                           *)
(***************************************************************************)
VARIABLES
    sseListeners,   \* sseListeners[set]: the callbacks in openListeners, messageListeners, errorListeners
    sseSubscribed,  \* handlers added by subscribe(event, callback), as <<event, callback>>
    sseClosed,      \* TRUE once close() has been called
    sseEvents,      \* number of events the EventSource has dispatched
    sseLast         \* the last event: its type, the callbacks registered then, the calls made

sseVars == <<sseListeners, sseSubscribed, sseClosed, sseEvents, sseLast>>

vars == <<composeVars, httpVars, patchVars, lazyVars, factoryVars, offlineVars, envVars, telemetryVars, managerVars, wsVars, subVars, raceVars, latencyVars, socketVars, sseVars>>

NoRequest == [method |-> "none", url |-> "undefined", bodyOrOptions |-> "undefined",
              optionsArg |-> "undefined"]

IdleTransport == [state |-> "idle", method |-> "none", url |-> "undefined",
                  body |-> "undefined", headers |-> "undefined"]

NoOutcome == [status |-> "none", value |-> "undefined"]

\* The HTTP variables while no delegate is modelled.
HttpUnused ==
    /\ delegateKeys = {}
    /\ features = 0
    /\ wraps = <<>>
    /\ request = NoRequest
    /\ frames = <<>>
    /\ pending = {}
    /\ transport = IdleTransport
    /\ outcome = NoOutcome
    /\ log = <<>>

\* The composition variables while no composition is modelled.
ComposeUnused ==
    /\ withFeatures = <<>>
    /\ heap = <<>>
    /\ accumulator = 0
    /\ index = 0
    /\ cpc = "off"
    /\ rest = 0
    /\ onInit = "undefined"
    /\ thrown = "none"
    /\ calls = <<>>
    /\ inputRefs = <<>>
    /\ observation = <<>>

\* A JavaScript value: undefined, a primitive, or an object with own properties.
JsUndefined == [type |-> "undefined", props |-> EmptyObject]

JsPrimitive == [type |-> "string", props |-> EmptyObject]

JsObject(props) == [type |-> "object", props |-> props]

NoContext == [method |-> "none", url |-> "undefined", headers |-> "undefined",
              body |-> "undefined"]

NoArguments == [url |-> "undefined", bodyOrOptions |-> "undefined", optionsArg |-> "undefined"]

\* The variables of the patching middleware while it is not modelled.
PatchUnused ==
    /\ pInterceptor = [before |-> FALSE, after |-> FALSE, error |-> FALSE]
    /\ pPc = "off"
    /\ pContext = NoContext
    /\ pOriginalArgs = NoArguments
    /\ pResponse = JsUndefined
    /\ pAfterContext = EmptyObject
    /\ pAfterResult = JsUndefined
    /\ pCaught = "none"
    /\ pOutcome = [status |-> "none", value |-> JsUndefined, error |-> "none"]

\* The variables of the lazy delegate while it is not modelled.
LazyUnused ==
    /\ lazyDelegate = "null"
    /\ lazyLoading = FALSE
    /\ lazyError = "null"
    /\ attempts = 0
    /\ callers = <<>>

NoInput == [hasType |-> FALSE, type |-> "undefined", impl |-> "undefined", keys |-> {}]

NotCreated == [status |-> "none", keys |-> {}, same |-> FALSE, lazy |-> FALSE,
               error |-> "none"]

NotDetected == [http |-> FALSE, websocket |-> FALSE, sse |-> FALSE]

\* The variables of the delegate factory while it is not modelled.
FactoryUnused ==
    /\ fInput = NoInput
    /\ fPc = "off"
    /\ fCreated = NotCreated
    /\ fDetected = NotDetected
    /\ fBuilt = "none"

NoEntry == [present |-> FALSE, data |-> "null"]

NoOfflineCall == [pc |-> "idle", id |-> 0, method |-> "none", key |-> "none", entryAtCall |-> NoEntry,
                  onlineAtCall |-> FALSE, entryAtFailure |-> NoEntry, entryAfterSuccess |-> NoEntry, transportCalls |-> 0,
                  cached |-> "undefined", evicted |-> FALSE,
                  transportResult |-> [status |-> "none", value |-> "undefined"]]

\* The variables of the offline wrapper while it is not modelled.
OfflineUnused ==
    /\ strategy = "none"
    /\ cacheTTL = 0
    /\ cache = <<>>
    /\ now = 0
    /\ online = FALSE
    /\ offlineCall = NoOfflineCall
    /\ offlineOutcome = [status |-> "none", value |-> "undefined"]

\* The variables each part of the model leaves alone.
NoEnvCall == [pc |-> "idle", method |-> "none", url |-> <<>>, envAtCall |-> "undefined",
              baseAtCall |-> [type |-> "undefined", chars |-> <<>>],
              beforeResult |-> <<>>, transportUrl |-> <<>>]

\* The variables of the environments wrapper while it is not modelled.
EnvUnused ==
    /\ envConfig = [environments |-> <<>>, default |-> "undefined", fallback |-> "undefined"]
    /\ currentEnv = "undefined"
    /\ lastSet = "none"
    /\ setThrew = FALSE
    /\ envCall = NoEnvCall

NoTelemetryCall == [pc |-> "idle", operation |-> "none"]

\* The variables of the telemetry wrapper while it is not modelled.
TelemetryUnused ==
    /\ enableMetrics = FALSE
    /\ events = <<>>
    /\ metrics = [total |-> 0, success |-> 0, errors |-> 0]
    /\ startTimes = {}
    /\ telemetryCalls = <<>>
    /\ started = 0

\* The variables of the applied feature value while it is not modelled.
ManagerUnused ==
    /\ mFeature = "none"
    /\ mManagers = <<>>
    /\ mClients = <<>>
    /\ mActor = 0

NoWsCall == [method |-> "none", message |-> "undefined", log |-> <<>>, outcome |-> "none"]

\* The variables of the WebSocket wrapper while it is not modelled.
WsUnused ==
    /\ wsInterceptor = <<>>
    /\ wsCall = NoWsCall
    /\ wsRejections = 0
    /\ wsConsole = 0

\* The variables of the subscriptions while they are not modelled.
SubUnused ==
    /\ subKind = "none"
    /\ subscriptions = <<>>

\* The call of a caller that has not called yet.
NoRaceCall == [pc |-> "idle", key |-> "none", cold |-> FALSE, inFlight |-> {}, called |-> 0,
               transport |-> "none", result |-> "undefined", returned |-> "undefined",
               settledAt |-> 0]

\* The variables of the overlapping requests while they are not modelled.
RaceUnused ==
    /\ raceCache = <<>>
    /\ raceTTL = 0
    /\ raceNow = 0
    /\ raceOnline = FALSE
    /\ raceCalls = <<>>
    /\ raceTransportCalls = 0
    /\ raceSettled = 0

\* A JavaScript number of the model: a duration in milliseconds, or one of
\* the two bounds Number.MAX_SAFE_INTEGER (big = 1) and
\* Number.MIN_SAFE_INTEGER (big = -1), beyond every duration.
Ms(n) == [big |-> 0, n |-> n]

MAX_SAFE_INTEGER == [big |-> 1, n |-> 0]

MIN_SAFE_INTEGER == [big |-> -1, n |-> 0]

\* The variables of the latency figures while they are not modelled.
LatencyUnused ==
    /\ latEnabled = FALSE
    /\ latEvents = <<>>
    /\ latency = [avg |-> [sum |-> 0, count |-> 1], min |-> Ms(0), max |-> Ms(0)]

\* The variables of the WebSocket delegate while it is not modelled.
SocketUnused ==
    /\ socket = 0
    /\ sockets = <<>>
    /\ reconnectTimer = FALSE
    /\ reconnectAttempts = 0
    /\ maxReconnectAttempts = 0
    /\ timers = 0
    /\ userOp = "none"
    /\ dropped = FALSE

SseCallbacks == {"cb1", "cb2"}

NoSseEvent == [type |-> "none", registered |-> {}, calls |-> [cb \in SseCallbacks |-> 0]]

\* The variables of the SSE delegate while it is not modelled.
SseUnused ==
    /\ sseListeners = <<>>
    /\ sseSubscribed = {}
    /\ sseClosed = FALSE
    /\ sseEvents = 0
    /\ sseLast = NoSseEvent

outsideCompose == <<httpVars, patchVars, lazyVars, factoryVars, offlineVars, envVars, telemetryVars, managerVars, wsVars, subVars, raceVars, latencyVars, socketVars, sseVars>>

outsideHttp == <<composeVars, patchVars, lazyVars, factoryVars, offlineVars, envVars, telemetryVars, managerVars, wsVars, subVars, raceVars, latencyVars, socketVars, sseVars>>

outsidePatch == <<composeVars, httpVars, lazyVars, factoryVars, offlineVars, envVars, telemetryVars, managerVars, wsVars, subVars, raceVars, latencyVars, socketVars, sseVars>>

outsideLazy == <<composeVars, httpVars, patchVars, factoryVars, offlineVars, envVars, telemetryVars, managerVars, wsVars, subVars, raceVars, latencyVars, socketVars, sseVars>>

outsideFactory == <<composeVars, httpVars, patchVars, lazyVars, offlineVars, envVars, telemetryVars, managerVars, wsVars, subVars, raceVars, latencyVars, socketVars, sseVars>>

outsideOffline == <<composeVars, httpVars, patchVars, lazyVars, factoryVars, envVars, telemetryVars, managerVars, wsVars, subVars, raceVars, latencyVars, socketVars, sseVars>>

outsideEnv == <<composeVars, httpVars, patchVars, lazyVars, factoryVars, offlineVars, telemetryVars, managerVars, wsVars, subVars, raceVars, latencyVars, socketVars, sseVars>>

outsideTelemetry == <<composeVars, httpVars, patchVars, lazyVars, factoryVars, offlineVars, envVars, managerVars, wsVars, subVars, raceVars, latencyVars, socketVars, sseVars>>

outsideManager == <<composeVars, httpVars, patchVars, lazyVars, factoryVars, offlineVars, envVars, telemetryVars, wsVars, subVars, raceVars, latencyVars, socketVars, sseVars>>

outsideWs == <<composeVars, httpVars, patchVars, lazyVars, factoryVars, offlineVars, envVars, telemetryVars, managerVars, subVars, raceVars, latencyVars, socketVars, sseVars>>

outsideSub == <<composeVars, httpVars, patchVars, lazyVars, factoryVars, offlineVars, envVars, telemetryVars, managerVars, wsVars, raceVars, latencyVars, socketVars, sseVars>>

outsideRace == <<composeVars, httpVars, patchVars, lazyVars, factoryVars, offlineVars, envVars, telemetryVars, managerVars, wsVars, subVars, latencyVars, socketVars, sseVars>>

outsideLatency == <<composeVars, httpVars, patchVars, lazyVars, factoryVars, offlineVars, envVars, telemetryVars, managerVars, wsVars, subVars, raceVars, socketVars, sseVars>>

outsideSocket == <<composeVars, httpVars, patchVars, lazyVars, factoryVars, offlineVars, envVars, telemetryVars, managerVars, wsVars, subVars, raceVars, latencyVars, sseVars>>

outsideSse == <<composeVars, httpVars, patchVars, lazyVars, factoryVars, offlineVars, envVars, telemetryVars, managerVars, wsVars, subVars, raceVars, latencyVars, socketVars>>

OutsideComposeUnused == HttpUnused /\ PatchUnused /\ LazyUnused /\ FactoryUnused /\ OfflineUnused /\ EnvUnused /\ TelemetryUnused /\ ManagerUnused /\ WsUnused /\ SubUnused /\ RaceUnused /\ LatencyUnused /\ SocketUnused /\ SseUnused

OutsideHttpUnused == ComposeUnused /\ PatchUnused /\ LazyUnused /\ FactoryUnused /\ OfflineUnused /\ EnvUnused /\ TelemetryUnused /\ ManagerUnused /\ WsUnused /\ SubUnused /\ RaceUnused /\ LatencyUnused /\ SocketUnused /\ SseUnused

OutsidePatchUnused == ComposeUnused /\ HttpUnused /\ LazyUnused /\ FactoryUnused /\ OfflineUnused /\ EnvUnused /\ TelemetryUnused /\ ManagerUnused /\ WsUnused /\ SubUnused /\ RaceUnused /\ LatencyUnused /\ SocketUnused /\ SseUnused

OutsideLazyUnused == ComposeUnused /\ HttpUnused /\ PatchUnused /\ FactoryUnused /\ OfflineUnused /\ EnvUnused /\ TelemetryUnused /\ ManagerUnused /\ WsUnused /\ SubUnused /\ RaceUnused /\ LatencyUnused /\ SocketUnused /\ SseUnused

OutsideFactoryUnused == ComposeUnused /\ HttpUnused /\ PatchUnused /\ LazyUnused /\ OfflineUnused /\ EnvUnused /\ TelemetryUnused /\ ManagerUnused /\ WsUnused /\ SubUnused /\ RaceUnused /\ LatencyUnused /\ SocketUnused /\ SseUnused

OutsideOfflineUnused == ComposeUnused /\ HttpUnused /\ PatchUnused /\ LazyUnused /\ FactoryUnused /\ EnvUnused /\ TelemetryUnused /\ ManagerUnused /\ WsUnused /\ SubUnused /\ RaceUnused /\ LatencyUnused /\ SocketUnused /\ SseUnused

OutsideEnvUnused == ComposeUnused /\ HttpUnused /\ PatchUnused /\ LazyUnused /\ FactoryUnused /\ OfflineUnused /\ TelemetryUnused /\ ManagerUnused /\ WsUnused /\ SubUnused /\ RaceUnused /\ LatencyUnused /\ SocketUnused /\ SseUnused

OutsideTelemetryUnused == ComposeUnused /\ HttpUnused /\ PatchUnused /\ LazyUnused /\ FactoryUnused /\ OfflineUnused /\ EnvUnused /\ ManagerUnused /\ WsUnused /\ SubUnused /\ RaceUnused /\ LatencyUnused /\ SocketUnused /\ SseUnused

OutsideManagerUnused == ComposeUnused /\ HttpUnused /\ PatchUnused /\ LazyUnused /\ FactoryUnused /\ OfflineUnused /\ EnvUnused /\ TelemetryUnused /\ WsUnused /\ SubUnused /\ RaceUnused /\ LatencyUnused /\ SocketUnused /\ SseUnused

OutsideWsUnused == ComposeUnused /\ HttpUnused /\ PatchUnused /\ LazyUnused /\ FactoryUnused /\ OfflineUnused /\ EnvUnused /\ TelemetryUnused /\ ManagerUnused /\ SubUnused /\ RaceUnused /\ LatencyUnused /\ SocketUnused /\ SseUnused

OutsideSubUnused == ComposeUnused /\ HttpUnused /\ PatchUnused /\ LazyUnused /\ FactoryUnused /\ OfflineUnused /\ EnvUnused /\ TelemetryUnused /\ ManagerUnused /\ WsUnused /\ RaceUnused /\ LatencyUnused /\ SocketUnused /\ SseUnused

OutsideRaceUnused == ComposeUnused /\ HttpUnused /\ PatchUnused /\ LazyUnused /\ FactoryUnused /\ OfflineUnused /\ EnvUnused /\ TelemetryUnused /\ ManagerUnused /\ WsUnused /\ SubUnused /\ LatencyUnused /\ SocketUnused /\ SseUnused

OutsideLatencyUnused == ComposeUnused /\ HttpUnused /\ PatchUnused /\ LazyUnused /\ FactoryUnused /\ OfflineUnused /\ EnvUnused /\ TelemetryUnused /\ ManagerUnused /\ WsUnused /\ SubUnused /\ RaceUnused /\ SocketUnused /\ SseUnused

OutsideSocketUnused == ComposeUnused /\ HttpUnused /\ PatchUnused /\ LazyUnused /\ FactoryUnused /\ OfflineUnused /\ EnvUnused /\ TelemetryUnused /\ ManagerUnused /\ WsUnused /\ SubUnused /\ RaceUnused /\ LatencyUnused /\ SseUnused

OutsideSseUnused == ComposeUnused /\ HttpUnused /\ PatchUnused /\ LazyUnused /\ FactoryUnused /\ OfflineUnused /\ EnvUnused /\ TelemetryUnused /\ ManagerUnused /\ WsUnused /\ SubUnused /\ RaceUnused /\ LatencyUnused /\ SocketUnused

\* Mutant: keys already on the target win over the source's.
ObjectAssign_TargetWins(h, target, source) == [h EXCEPT ![target] = Spread(source, @)]

\* Object.assign(target, source): writes source's own keys into the object
\* target refers to, and returns target.
ObjectAssign(h, target, source) == [h EXCEPT ![target] = Spread(@, source)]

ComposeInit ==
    /\ OutsideComposeUnused
    /\ withFeatures \in FeatureLists
    /\ heap = <<EmptyObject>>
    /\ accumulator = 1
    /\ index = 1
    /\ cpc = "reduce"
    /\ rest = 0
    /\ onInit = "undefined"
    /\ thrown = "none"
    /\ calls = <<>>
    /\ inputRefs = <<>>
    /\ observation = <<>>

\* Mutant: a throwing feature is skipped and the fold goes on.
ReduceCallback_CatchAndContinue(h, acc, i, feature) ==
    IF FeatureThrows(feature)
    THEN [cpc |-> "reduce", thrown |-> "none", heap |-> h, index |-> i + 1]
    ELSE [cpc |-> "reduce", thrown |-> "none",
          heap |-> ObjectAssign(h, acc, FeatureOutput(feature, h[acc])), index |-> i + 1]

\* (accumulator, feature) => Object.assign(accumulator, feature(accumulator)):
\* a feature that throws leaves reduce and universalClient with its error.
ReduceCallback(h, acc, i, feature) ==
    IF FeatureThrows(feature)
    THEN [cpc |-> "thrown", thrown |-> feature.err, heap |-> h, index |-> i]
    ELSE [cpc |-> "reduce", thrown |-> "none",
          heap |-> ObjectAssign(h, acc, FeatureOutput(feature, h[acc])), index |-> i + 1]

\* One iteration of reduce over withFeatures.
ReduceStep ==
    /\ cpc = "reduce"
    /\ index <= Len(withFeatures)
    /\ LET feature == withFeatures[index]
           r == ReduceCallback(heap, accumulator, index, feature)
       IN /\ calls' = Append(calls, [call |-> "feature", idx |-> index, arg |-> heap[accumulator]])
          /\ inputRefs' = Append(inputRefs, accumulator)
          /\ cpc' = r.cpc
          /\ thrown' = r.thrown
          /\ heap' = r.heap
          /\ index' = r.index
    /\ UNCHANGED <<outsideCompose, withFeatures, accumulator, rest, onInit, observation>>

\* reduce returns the accumulator once every feature has been called.
ReduceDone ==
    /\ cpc = "reduce"
    /\ index > Len(withFeatures)
    /\ cpc' = "extract"
    /\ UNCHANGED <<outsideCompose, withFeatures, heap, accumulator, index, rest, onInit, thrown,
                   calls, inputRefs, observation>>

\* const { onInit, ...rest } = client
ExtractOnInit ==
    /\ cpc = "extract"
    /\ LET client == heap[accumulator]
       IN /\ onInit' = IF "onInit" \in DOMAIN client THEN client["onInit"] ELSE "undefined"
          /\ heap' = Append(heap, Omit(client, "onInit"))
          /\ rest' = Len(heap) + 1
    /\ cpc' = "init"
    /\ UNCHANGED <<outsideCompose, withFeatures, accumulator, index, thrown, calls, inputRefs, observation>>

\* if (typeof onInit === 'function') onInit(rest): the hook returns or throws.
CallOnInit ==
    /\ cpc = "init"
    /\ IF IsCallable(onInit)
       THEN /\ calls' = Append(calls, [call |-> "onInit", idx |-> 0, arg |-> heap[rest]])
            /\ \E hookResult \in {"returns"} \cup ErrorValues :
                 IF hookResult = "returns"
                 THEN cpc' = "return" /\ thrown' = thrown
                 ELSE cpc' = "thrown" /\ thrown' = hookResult
       ELSE /\ cpc' = "return"
            /\ UNCHANGED <<calls, thrown>>
    /\ UNCHANGED <<outsideCompose, withFeatures, heap, accumulator, index, rest, onInit, inputRefs, observation>>

\* return rest
Return ==
    /\ cpc = "return"
    /\ cpc' = "returned"
    /\ UNCHANGED <<outsideCompose, withFeatures, heap, accumulator, index, rest, onInit, thrown,
                   calls, inputRefs, observation>>

\* A method that closes over the input of feature k reads that input.
ObserveInput(k) ==
    /\ k \in 1..Len(inputRefs)
    /\ FeatureKeepsInput(withFeatures[k])
    /\ observation' = <<[idx |-> k, state |-> heap[inputRefs[k]]]>>
    /\ UNCHANGED <<outsideCompose, withFeatures, heap, accumulator, index, cpc, rest, onInit, thrown,
                   calls, inputRefs>>

ComposeNext ==
    \/ ReduceStep
    \/ ReduceDone
    \/ ExtractOnInit
    \/ CallOnInit
    \/ Return
    \/ \E k \in 1..MaxFeatures : ObserveInput(k)

ComposeSpec == ComposeInit /\ [][ComposeNext]_vars

(***************************************************************************)
(* Properties of the composition engine.                                   *)
(***************************************************************************)
\* shallowMerge(acc, partial) of the composition contract.
ShallowMerge(acc, partial) ==
    [k \in DOMAIN acc \cup DOMAIN partial |-> IF k \in DOMAIN partial THEN partial[k] ELSE acc[k]]

\* The accumulator after the first n features of fs, by the contract's fold.
RECURSIVE FoldFeatures(_, _)
FoldFeatures(fs, n) ==
    IF n = 0 THEN EmptyObject
    ELSE LET acc == FoldFeatures(fs, n - 1)
         IN ShallowMerge(acc, FeatureOutput(fs[n], acc))

FinalState == FoldFeatures(withFeatures, Len(withFeatures))

OnInitCalls == { c \in DOMAIN calls : calls[c].call = "onInit" }

NoFeatureThrows == \A k \in DOMAIN withFeatures : ~FeatureThrows(withFeatures[k])

Throwers == { k \in DOMAIN withFeatures : FeatureThrows(withFeatures[k]) }

\* C1: the accumulator after k features is the left-to-right shallow-merge fold
\* of the first k features from the empty mapping, the client handed to the hook
\* extraction is the fold of all of them, and the returned client is that fold
\* with only the hook key stripped (a later feature's key overwrites an earlier
\* one, every other key is kept, no feature gives the empty client).
C1_ClientIsFold ==
    /\ cpc = "reduce" => heap[accumulator] = FoldFeatures(withFeatures, index - 1)
    /\ cpc \in {"extract", "init", "return", "returned"} => heap[accumulator] = FinalState
    /\ cpc = "returned" =>
          /\ DOMAIN heap[rest] = DOMAIN FinalState \ {"onInit"}
          /\ \A k \in DOMAIN heap[rest] : heap[rest][k] = FinalState[k]
          /\ (Len(withFeatures) = 0 => heap[rest] = EmptyObject)

C1_Witness ==
    /\ cpc = "returned"
    /\ Len(withFeatures) = 3
    /\ withFeatures[1].kind = "const" /\ withFeatures[1].out = [k \in {"propA"} |-> "v1"]
    /\ withFeatures[2].kind = "const" /\ withFeatures[2].out = [k \in {"propB"} |-> "v1"]
    /\ withFeatures[3].kind = "const" /\ withFeatures[3].out = [k \in {"propA"} |-> "v2"]
    /\ heap[rest] = [k \in {"propA", "propB"} |-> IF k = "propA" THEN "v2" ELSE "v1"]

\* C2: a callable onInit in the final accumulator is called exactly once, after
\* the last feature has returned and before universalClient returns, with the
\* final merged state without the onInit key.
C2_OnInitOnce ==
    /\ Cardinality(OnInitCalls) <= 1
    /\ \A c \in OnInitCalls :
          /\ c = Len(withFeatures) + 1
          /\ NoFeatureThrows
          /\ cpc # "reduce"
          /\ "onInit" \in DOMAIN FinalState /\ FinalState["onInit"] \in FunctionValues
          /\ calls[c].arg = [k \in DOMAIN FinalState \ {"onInit"} |-> FinalState[k]]
    /\ (/\ cpc \in {"return", "returned"}
        /\ "onInit" \in DOMAIN FinalState
        /\ FinalState["onInit"] \in FunctionValues) => Cardinality(OnInitCalls) = 1

C2_Witness ==
    /\ cpc = "returned"
    /\ Len(withFeatures) = 3
    /\ OnInitCalls = {4}
    /\ DOMAIN calls[4].arg = {"propA", "propB"}

\* C3: the returned object never has an onInit property, and an onInit value
\* that is not callable is removed without being called.
C3_OnInitStripped ==
    /\ cpc = "returned" => "onInit" \notin DOMAIN heap[rest]
    /\ (/\ NoFeatureThrows
        /\ "onInit" \in DOMAIN FinalState
        /\ FinalState["onInit"] \notin FunctionValues) => OnInitCalls = {}

C3_Witness ==
    /\ cpc = "returned"
    /\ "onInit" \in DOMAIN heap[accumulator]
    /\ heap[accumulator]["onInit"] = "v1"
    /\ DOMAIN heap[rest] = {"propA"}

\* C4: the state a feature observes, when it is called and whenever it reads
\* the input it kept, holds only the merged outputs of the features before it
\* (its own output apart), never what a later feature contributed.
C4_NoLaterState ==
    /\ \A c \in DOMAIN calls :
          calls[c].call = "feature" => calls[c].arg = FoldFeatures(withFeatures, calls[c].idx - 1)
    /\ \A o \in DOMAIN observation :
          \/ observation[o].state = FoldFeatures(withFeatures, observation[o].idx - 1)
          \/ observation[o].state = FoldFeatures(withFeatures, observation[o].idx)

\* C5: when feature k throws, no later feature is called, onInit is not called,
\* no client is returned and universalClient throws that feature's error.
C5_ThrowAborts ==
    \A k \in Throwers :
        /\ \A c \in DOMAIN calls : calls[c].call = "feature" /\ calls[c].idx <= k
        /\ cpc \in {"reduce", "thrown"}
        /\ rest = 0
        /\ (\E c \in DOMAIN calls : calls[c].idx = k) =>
              /\ cpc = "thrown"
              /\ \A j \in Throwers : j >= k
              /\ thrown = withFeatures[k].err
        /\ (cpc = "thrown" /\ \A j \in Throwers : j >= k) => Len(calls) = k

C5_Witness ==
    /\ cpc = "thrown"
    /\ Len(withFeatures) = 3
    /\ Throwers = {2}
    /\ thrown = "e2"
    /\ "onInit" \in DOMAIN heap[accumulator]
    /\ heap[accumulator]["onInit"] = "fn1"
    /\ Len(calls) = 2

(***************************************************************************)
(* The HTTP delegate middleware: wrapHttpDelegate and withInterceptor.     *)
(***************************************************************************)
HttpMethods == {"get", "post", "patch", "put", "delete"}

WebSocketMethods == {"connect", "send", "close", "onOpen", "onClose", "onError", "onMessage"}

\* 'get' in delegate && 'post' in delegate && 'patch' in delegate && ...
isHttpDelegate(keys) == HttpMethods \subseteq keys

\* An interceptor is a set of optional hooks: before?, after?, error?.
HttpInterceptors == [before : BOOLEAN, after : BOOLEAN, error : BOOLEAN]

CallerUrls == {"/x"}

CallerBodies == {"b0"}

CallerHeaders == {"undefined", "h0"}

TransportResults == {"r0"}

TransportErrors == {"netErr"}

IdleFrame == [pc |-> "idle", context |-> [method |-> "none", url |-> "undefined",
                                          headers |-> "undefined", body |-> "undefined"],
              value |-> "undefined"]

\* Lines 54-63: the request context a wrapped method builds from its arguments.
BuildContext(methodName, url, bodyOrOptions, optionsArg) ==
    LET isGetOrDelete == methodName = "get" \/ methodName = "delete"
        body == IF isGetOrDelete THEN "undefined" ELSE bodyOrOptions
        options == IF isGetOrDelete THEN bodyOrOptions ELSE optionsArg
    IN [method |-> methodName, url |-> url, headers |-> options, body |-> body]

\* Mutant: the options of the original call never carry the context's headers.
OriginalArguments_NoHeaders(context) ==
    LET isGetOrDelete == context.method = "get" \/ context.method = "delete"
    IN IF isGetOrDelete
       THEN [url |-> context.url, bodyOrOptions |-> "undefined", optionsArg |-> "undefined"]
       ELSE [url |-> context.url, bodyOrOptions |-> context.body, optionsArg |-> "undefined"]

\* Lines 75-80: the arguments the original method is called with.
OriginalArguments(context) ==
    LET isGetOrDelete == context.method = "get" \/ context.method = "delete"
        finalOptions == IF context.headers # "undefined" THEN context.headers ELSE "undefined"
    IN IF isGetOrDelete
       THEN [url |-> context.url, bodyOrOptions |-> finalOptions, optionsArg |-> "undefined"]
       ELSE [url |-> context.url, bodyOrOptions |-> context.body, optionsArg |-> finalOptions]

\* What a before hook of wrap k may return: undefined or a partial context.
BeforeResults(k, context) ==
    { [tag |-> "undefined", isObject |-> FALSE, partial |-> EmptyObject],
      [tag |-> "url", isObject |-> TRUE,
       partial |-> [f \in {"url"} |-> "/i" \o ToString(k) \o context.url]],
      [tag |-> "headers,body", isObject |-> TRUE,
       partial |-> [f \in {"headers", "body"} |->
                      IF f = "headers" THEN "h" \o ToString(k) ELSE "b" \o ToString(k)]] }

\* What an after hook of wrap k returns for a result.
AfterResult(k, result) == "a" \o ToString(k) \o "(" \o result \o ")"

\* Mutant: the merge keeps the caller's value of a key the hook returns.
MergeBefore_ContextWins(context, beforeResult) ==
    IF beforeResult.isObject THEN Spread(beforeResult.partial, context) ELSE context

\* Lines 69-71: context = { ...context, ...beforeResult } for an object result.
MergeBefore(context, beforeResult) ==
    IF beforeResult.isObject THEN Spread(context, beforeResult.partial) ELSE context

\* Mutant: the before hook is called but not awaited.
BeforeCalledPc_NotAwaited == "call"

\* Line 68: await interceptor.before(context).
BeforeCalledPc == "awaitBefore"

\* Mutant: the catch block rejects with whatever the error hook produced.
ErrorSettledValue_HookResult(caught, hookResult) == hookResult

\* Lines 96-98: after the error hook has returned, throw error.
ErrorSettledValue(caught, hookResult) == caught

\* Mutant: a wrap is put inside the existing ones.
wrapHttpDelegate_Inside(ws, interceptor) == <<interceptor>> \o ws

\* wrapHttpDelegate(delegate, interceptor): the new delegate's methods run the
\* interceptor around delegate's methods, so the new wrap is the outermost.
wrapHttpDelegate(ws, interceptor) == Append(ws, interceptor)

Event(ev, who, context, value) ==
    [ev |-> ev, who |-> who, method |-> context.method, url |-> context.url,
     headers |-> context.headers, body |-> context.body, value |-> value]

\* The part of the state one request changes, as a record.
RequestState ==
    [frames |-> frames, pending |-> pending, transport |-> transport,
     outcome |-> outcome, log |-> log]

\* The request's variables become those of the record st.
Becomes(st) ==
    /\ frames' = st.frames
    /\ pending' = st.pending
    /\ transport' = st.transport
    /\ outcome' = st.outcome
    /\ log' = st.log

\* Lines 52-80, from the call of wrap k's method to its first await: the
\* context is built and the before hook, when present, is called and awaited;
\* without one the original method is called at once, which is wrap k-1's
\* method or, for k = 0, the method of the unwrapped delegate.
RECURSIVE InvokeMethod(_, _, _, _)
InvokeMethod(st, k, method, args) ==
    LET context == BuildContext(method, args.url, args.bodyOrOptions, args.optionsArg)
    IN IF k = 0
       THEN [st EXCEPT !.transport = [state |-> "pending", method |-> method,
                                      url |-> context.url, body |-> context.body,
                                      headers |-> context.headers],
                       !.log = Append(@, Event("transport", 0, context, "undefined"))]
       ELSE LET entered == [pc |-> "call", context |-> context, value |-> "undefined"]
                called == [st EXCEPT !.frames[k] = [entered EXCEPT !.pc = BeforeCalledPc],
                                     !.pending = @ \cup {<<k, "before">>},
                                     !.log = Append(@, Event("before", k, context, "undefined"))]
                proceed == IF wraps[k].before THEN called
                           ELSE [st EXCEPT !.frames[k] = entered]
            IN IF proceed.frames[k].pc = "awaitBefore"
               THEN proceed
               ELSE InvokeMethod([proceed EXCEPT !.frames[k].pc = "awaitOriginal"], k - 1,
                                 method, OriginalArguments(context))

RECURSIVE OriginalSettled(_, _, _, _)

\* Mutant: the catch block throws the error again without calling the hook.
Catch_NoHook(st, k, err) ==
    OriginalSettled([st EXCEPT !.frames[k].pc = "rejected", !.frames[k].value = err],
                    k + 1, FALSE, err)

\* Lines 93-99, the catch block of wrap k's method with the error err: the
\* error hook, when present, is called and awaited; without one err is thrown.
Catch(st, k, err) ==
    IF wraps[k].error
    THEN [st EXCEPT !.frames[k].pc = "awaitError", !.frames[k].value = err,
                    !.pending = @ \cup {<<k, "error">>},
                    !.log = Append(@, Event("error", k, st.frames[k].context, err))]
    ELSE OriginalSettled([st EXCEPT !.frames[k].pc = "rejected", !.frames[k].value = err],
                         k + 1, FALSE, err)

\* Lines 78-92 of wrap k's method once the original method has settled with v
\* (k beyond the last wrap: the caller's promise settles): the after hook, when
\* present, is called with the result and awaited, without one the result is
\* returned; a rejection goes to the catch block.
OriginalSettled(st, k, fulfilled, v) ==
    IF k > Len(st.frames)
    THEN [st EXCEPT !.outcome = [status |-> IF fulfilled THEN "fulfilled" ELSE "rejected",
                                 value |-> v]]
    ELSE IF ~fulfilled THEN Catch(st, k, v)
    ELSE IF wraps[k].after
    THEN [st EXCEPT !.frames[k].pc = "awaitAfter", !.frames[k].value = v,
                    !.pending = @ \cup {<<k, "after">>},
                    !.log = Append(@, Event("after", k, st.frames[k].context, v))]
    ELSE OriginalSettled([st EXCEPT !.frames[k].pc = "resolved", !.frames[k].value = v],
                         k + 1, TRUE, v)

\* A hook promise of wrap k leaves the pending ones, with its settlement logged.
HookSettled(st, k, hook, context, value) ==
    [st EXCEPT !.pending = @ \ {<<k, hook>>},
               !.log = Append(@, Event(hook \o "Settled", k, context, value))]

HttpInit ==
    /\ OutsideHttpUnused
    /\ delegateKeys \in {HttpMethods, WebSocketMethods}
    /\ features = 0
    /\ wraps = <<>>
    /\ request = NoRequest
    /\ frames = <<>>
    /\ pending = {}
    /\ transport = IdleTransport
    /\ outcome = NoOutcome
    /\ log = <<>>

\* withInterceptor(config)({ delegate, ...rest }): wraps an HTTP delegate and
\* returns any other delegate unchanged.  id is the position of the feature in
\* the feature list: it tells the interceptor objects apart.
withInterceptor(interceptor) ==
    /\ request.method = "none"
    /\ features < MaxWraps
    /\ features' = features + 1
    /\ wraps' = IF isHttpDelegate(delegateKeys)
                THEN wrapHttpDelegate(wraps, [id |-> features + 1] @@ interceptor)
                ELSE wraps
    /\ UNCHANGED <<outsideHttp, delegateKeys, request, frames, pending, transport, outcome, log>>

\* The caller calls delegate[method](url, ...) on the outermost delegate.
CallMethod(method, url, body, headers) ==
    /\ isHttpDelegate(delegateKeys)
    /\ request.method = "none"
    /\ LET isGetOrDelete == method = "get" \/ method = "delete"
           args == IF isGetOrDelete
                   THEN [url |-> url, bodyOrOptions |-> headers, optionsArg |-> "undefined"]
                   ELSE [url |-> url, bodyOrOptions |-> body, optionsArg |-> headers]
           called == [RequestState EXCEPT
                        !.frames = [k \in 1..Len(wraps) |-> IdleFrame],
                        !.outcome = [status |-> "pending", value |-> "undefined"]]
       IN /\ request' = [method |-> method] @@ args
          /\ Becomes(InvokeMethod(called, Len(wraps), method, args))
    /\ UNCHANGED <<outsideHttp, delegateKeys, features, wraps>>

\* The before hook's promise fulfils: lines 69-80 run if the method awaits it.
SettleBeforeReturn(k) ==
    /\ <<k, "before">> \in pending
    /\ \E beforeResult \in BeforeResults(k, frames[k].context) :
         LET merged == MergeBefore(frames[k].context, beforeResult)
             settled == HookSettled(RequestState, k, "before", merged, beforeResult.tag)
         IN IF frames[k].pc = "awaitBefore"
            THEN Becomes(InvokeMethod(
                     [settled EXCEPT !.frames[k].pc = "awaitOriginal",
                                     !.frames[k].context = merged],
                     k - 1, merged.method, OriginalArguments(merged)))
            ELSE Becomes(settled)
    /\ UNCHANGED <<outsideHttp, delegateKeys, features, wraps, request>>

\* The before hook throws or its promise rejects: control goes to the catch block.
SettleBeforeThrow(k) ==
    /\ <<k, "before">> \in pending
    /\ LET settled == HookSettled(RequestState, k, "before", frames[k].context, "beforeErr")
       IN IF frames[k].pc = "awaitBefore"
          THEN Becomes(Catch(settled, k, "beforeErr"))
          ELSE Becomes(settled)
    /\ UNCHANGED <<outsideHttp, delegateKeys, features, wraps, request>>

\* The call of the unwrapped delegate's method fulfils with v or rejects with v.
SettleTransport(fulfilled, v) ==
    /\ transport.state = "pending"
    /\ LET settled == [RequestState EXCEPT
                         !.transport.state = IF fulfilled THEN "fulfilled" ELSE "rejected",
                         !.log = Append(@, [ev |-> "transportSettled", who |-> 0,
                                            method |-> transport.method, url |-> transport.url,
                                            headers |-> transport.headers,
                                            body |-> transport.body, value |-> v])]
       IN Becomes(OriginalSettled(settled, 1, fulfilled, v))
    /\ UNCHANGED <<outsideHttp, delegateKeys, features, wraps, request>>

\* Line 84: return await interceptor.after(...), the hook's promise fulfilled.
SettleAfterReturn(k) ==
    /\ <<k, "after">> \in pending
    /\ LET v == AfterResult(k, frames[k].value)
           settled == HookSettled(RequestState, k, "after", frames[k].context, v)
       IN Becomes(OriginalSettled(
              [settled EXCEPT !.frames[k].pc = "resolved", !.frames[k].value = v],
              k + 1, TRUE, v))
    /\ UNCHANGED <<outsideHttp, delegateKeys, features, wraps, request>>

\* The after hook throws or rejects: control goes to the catch block.
SettleAfterThrow(k) ==
    /\ <<k, "after">> \in pending
    /\ Becomes(Catch(HookSettled(RequestState, k, "after", frames[k].context, "afterErr"),
                     k, "afterErr"))
    /\ UNCHANGED <<outsideHttp, delegateKeys, features, wraps, request>>

\* Lines 96-98: the error hook returned (or its promise fulfilled): throw error.
SettleErrorReturn(k) ==
    /\ <<k, "error">> \in pending
    /\ LET v == ErrorSettledValue(frames[k].value, "undefined")
           settled == HookSettled(RequestState, k, "error", frames[k].context, "undefined")
       IN Becomes(OriginalSettled(
              [settled EXCEPT !.frames[k].pc = "rejected", !.frames[k].value = v],
              k + 1, FALSE, v))
    /\ UNCHANGED <<outsideHttp, delegateKeys, features, wraps, request>>

\* Line 96: the awaited error hook throws or rejects inside the catch block, so
\* its error leaves the method and line 98 is not reached.
SettleErrorThrow(k) ==
    /\ <<k, "error">> \in pending
    /\ LET settled == HookSettled(RequestState, k, "error", frames[k].context, "errorHookErr")
       IN Becomes(OriginalSettled(
              [settled EXCEPT !.frames[k].pc = "rejected", !.frames[k].value = "errorHookErr"],
              k + 1, FALSE, "errorHookErr"))
    /\ UNCHANGED <<outsideHttp, delegateKeys, features, wraps, request>>

HttpNext ==
    \/ \E interceptor \in HttpInterceptors : withInterceptor(interceptor)
    \/ \E method \in HttpMethods, url \in CallerUrls, body \in CallerBodies,
          headers \in CallerHeaders : CallMethod(method, url, body, headers)
    \/ \E k \in 1..MaxWraps :
         \/ SettleBeforeReturn(k)
         \/ SettleBeforeThrow(k)
         \/ SettleAfterReturn(k)
         \/ SettleAfterThrow(k)
         \/ SettleErrorReturn(k)
         \/ SettleErrorThrow(k)
    \/ \E v \in TransportResults : SettleTransport(TRUE, v)
    \/ \E v \in TransportErrors : SettleTransport(FALSE, v)

HttpSpec == HttpInit /\ [][HttpNext]_vars

(***************************************************************************)
(* The wrapHttpDelegate of src/utils/delegate-middleware.utils.ts: one     *)
(* request through a delegate wrapped once.  Its after hook receives       *)
(* { method, url, response } and its object result is spread over the      *)
(* response.                                                               *)
(***************************************************************************)
\* Line 57: the context, with headers: options?.headers ?? {}.
PatchBuildContext(methodName, url, bodyOrOptions, optionsArg) ==
    LET isGetOrDelete == methodName = "get" \/ methodName = "delete"
        body == IF isGetOrDelete THEN "undefined" ELSE bodyOrOptions
        options == IF isGetOrDelete THEN bodyOrOptions ELSE optionsArg
    IN [method |-> methodName, url |-> url,
        headers |-> IF options = "undefined" THEN "{}" ELSE options, body |-> body]

\* The responses of the transport: objects.
PatchResponses ==
    { JsObject([k \in {"id", "createdAt"} |-> IF k = "id" THEN "1" ELSE "iso"]),
      JsObject([k \in {"id"} |-> "1"]) }

\* What the after hook may return for a response: nothing, a primitive, a
\* partial object, an object built from the whole response, an empty object.
PatchAfterResults(response) ==
    { JsUndefined, JsPrimitive,
      JsObject([k \in {"createdAt"} |-> "date"]),
      JsObject(Spread(response.props, [k \in {"createdAt"} |-> "date"])),
      JsObject(EmptyObject) }

\* Line 73: the argument of the after hook.
PatchAfterContext(context, response) ==
    [k \in {"method", "url", "response"} |->
        CASE k = "method" -> [type |-> "string", props |-> EmptyObject, is |-> context.method]
          [] k = "url" -> [type |-> "string", props |-> EmptyObject, is |-> context.url]
          [] OTHER -> [type |-> response.type, props |-> response.props, is |-> "response"]]

\* Lines 74-76: response = { ...response, ...afterResult } for an object result.
PatchAfter(response, afterResult) ==
    IF afterResult.type = "object"
    THEN JsObject(Spread(response.props, afterResult.props))
    ELSE response

PatchInit ==
    /\ OutsidePatchUnused
    /\ pInterceptor = [before |-> FALSE, after |-> FALSE, error |-> FALSE]
    /\ pPc = "idle"
    /\ pContext = NoContext
    /\ pOriginalArgs = NoArguments
    /\ pResponse = JsUndefined
    /\ pAfterContext = EmptyObject
    /\ pAfterResult = JsUndefined
    /\ pCaught = "none"
    /\ pOutcome = [status |-> "none", value |-> JsUndefined, error |-> "none"]

\* Lines 80-86, the catch block: the error hook is awaited, then error is thrown.
PatchCatch(err) ==
    /\ pCaught' = err
    /\ IF pInterceptor.error
       THEN pPc' = "awaitError" /\ UNCHANGED pOutcome
       ELSE /\ pPc' = "rejected"
            /\ pOutcome' = [status |-> "rejected", value |-> JsUndefined, error |-> err]

\* Lines 51-69 up to the first await: wrapHttpDelegate(delegate, interceptor)
\* [method](url, ...) builds the context and awaits the before hook or, without
\* one, the original method.
PatchCall(interceptor, method, url, body, headers) ==
    /\ pPc = "idle"
    /\ LET isGetOrDelete == method = "get" \/ method = "delete"
           context == IF isGetOrDelete
                      THEN PatchBuildContext(method, url, headers, "undefined")
                      ELSE PatchBuildContext(method, url, body, headers)
       IN /\ pInterceptor' = interceptor
          /\ pContext' = context
          /\ pOutcome' = [pOutcome EXCEPT !.status = "pending"]
          /\ IF interceptor.before
             THEN pPc' = "awaitBefore" /\ UNCHANGED pOriginalArgs
             ELSE pPc' = "awaitOriginal" /\ pOriginalArgs' = OriginalArguments(context)
    /\ UNCHANGED <<outsidePatch, pResponse, pAfterContext, pAfterResult, pCaught>>

\* Lines 60-69: the before hook's promise fulfils; its object result is merged
\* and the original method is called.
PatchSettleBefore ==
    /\ pPc = "awaitBefore"
    /\ \E beforeResult \in BeforeResults(1, pContext) :
         LET merged == MergeBefore(pContext, beforeResult)
         IN /\ pContext' = merged
            /\ pOriginalArgs' = OriginalArguments(merged)
    /\ pPc' = "awaitOriginal"
    /\ UNCHANGED <<outsidePatch, pInterceptor, pResponse, pAfterContext, pAfterResult,
                   pCaught, pOutcome>>

\* The before hook throws or rejects.
PatchBeforeThrows ==
    /\ pPc = "awaitBefore"
    /\ PatchCatch("beforeErr")
    /\ UNCHANGED <<outsidePatch, pInterceptor, pContext, pOriginalArgs, pResponse,
                   pAfterContext, pAfterResult>>

\* Lines 67-79: the original method fulfils with response; the after hook,
\* when present, is called and awaited, without one response is returned.
PatchOriginalFulfils(response) ==
    /\ pPc = "awaitOriginal"
    /\ pResponse' = response
    /\ IF pInterceptor.after
       THEN /\ pPc' = "awaitAfter"
            /\ pAfterContext' = PatchAfterContext(pContext, response)
            /\ UNCHANGED pOutcome
       ELSE /\ pPc' = "resolved"
            /\ pOutcome' = [status |-> "fulfilled", value |-> response, error |-> "none"]
            /\ UNCHANGED pAfterContext
    /\ UNCHANGED <<outsidePatch, pInterceptor, pContext, pOriginalArgs, pAfterResult, pCaught>>

\* The original method rejects.
PatchOriginalRejects(err) ==
    /\ pPc = "awaitOriginal"
    /\ PatchCatch(err)
    /\ UNCHANGED <<outsidePatch, pInterceptor, pContext, pOriginalArgs, pResponse,
                   pAfterContext, pAfterResult>>

\* Lines 73-79: the after hook's promise fulfils; return response.
PatchSettleAfter ==
    /\ pPc = "awaitAfter"
    /\ \E afterResult \in PatchAfterResults(pResponse) :
         /\ pAfterResult' = afterResult
         /\ pResponse' = PatchAfter(pResponse, afterResult)
         /\ pOutcome' = [status |-> "fulfilled", value |-> PatchAfter(pResponse, afterResult),
                         error |-> "none"]
    /\ pPc' = "resolved"
    /\ UNCHANGED <<outsidePatch, pInterceptor, pContext, pOriginalArgs, pAfterContext, pCaught>>

\* The after hook throws or rejects.
PatchAfterThrows ==
    /\ pPc = "awaitAfter"
    /\ PatchCatch("afterErr")
    /\ UNCHANGED <<outsidePatch, pInterceptor, pContext, pOriginalArgs, pResponse,
                   pAfterContext, pAfterResult>>

\* Lines 82-85: the error hook's promise settles; when it fulfilled, the caught
\* error is thrown, when it rejected, its own error leaves the method.
PatchSettleError(hookThrows) ==
    /\ pPc = "awaitError"
    /\ pPc' = "rejected"
    /\ pOutcome' = [status |-> "rejected", value |-> JsUndefined,
                    error |-> IF hookThrows THEN "errorHookErr" ELSE pCaught]
    /\ UNCHANGED <<outsidePatch, pInterceptor, pContext, pOriginalArgs, pResponse,
                   pAfterContext, pAfterResult, pCaught>>

PatchNext ==
    \/ \E interceptor \in HttpInterceptors, method \in HttpMethods, url \in CallerUrls,
          body \in CallerBodies, headers \in CallerHeaders :
          PatchCall(interceptor, method, url, body, headers)
    \/ PatchSettleBefore
    \/ PatchBeforeThrows
    \/ \E response \in PatchResponses : PatchOriginalFulfils(response)
    \/ \E err \in TransportErrors : PatchOriginalRejects(err)
    \/ PatchSettleAfter
    \/ PatchAfterThrows
    \/ \E hookThrows \in BOOLEAN : PatchSettleError(hookThrows)

PatchSpec == PatchInit /\ [][PatchNext]_vars

(***************************************************************************)
(* createLazyHttpDelegate (src/utils/delegate.utils.ts, lines 95-152): the *)
(* delegate withDelegate({ type: 'http', ... }) puts in the client.  Its   *)
(* methods await ensureDelegate() and then call the constructed delegate.  *)
(* Each action is one synchronous segment of a caller, between two awaits. *)
(***************************************************************************)
Callers == 1..MaxCallers

IdleCaller == [pc |-> "idle", method |-> "none", args |-> NoArguments, ensured |-> "none",
               forwarded |-> NoArguments, on |-> "none"]

\* The arguments wrapHttpDelegate calls the lazy delegate's method with, for a
\* request whose before hook returned beforeResult (part_009, lines 54-80).
InterceptedArguments(method, url, body, headers, beforeResult) ==
    LET context == IF method \in {"get", "delete"}
                   THEN BuildContext(method, url, headers, "undefined")
                   ELSE BuildContext(method, url, body, headers)
    IN OriginalArguments(MergeBefore(context, beforeResult))

\* Lines 131-150: d.get<T>(url), d.post<T>(url, body), ...: the arguments a
\* method of the lazy delegate calls the constructed delegate with.
ForwardedArguments(method, args) ==
    IF method \in {"get", "delete"}
    THEN [url |-> args.url, bodyOrOptions |-> "undefined", optionsArg |-> "undefined"]
    ELSE [url |-> args.url, bodyOrOptions |-> args.bodyOrOptions, optionsArg |-> "undefined"]

\* The headers a method call of an HTTP delegate carries in its options.
HeadersOf(method, args) ==
    IF method \in {"get", "delete"} THEN args.bodyOrOptions ELSE args.optionsArg

\* Mutant: a caller that finds construction in flight starts its own.
MustWait_Never(isLoading) == FALSE

\* Line 107: if (loading).
MustWait(isLoading) == isLoading

\* Mutant: a failed construction leaves no error behind.
FailureKept_Forgotten(err) == "null"

\* Line 122: error = err.
FailureKept(err) == err

\* Mutant: a waiting caller goes on polling after the construction settled.
StillLoading_Forever(isLoading) == TRUE

\* Line 109: while (loading).
StillLoading(isLoading) == isLoading

\* Mutant: the loading flag survives the end of the construction.
Finally_StillLoading(isLoading) == isLoading

\* Lines 124-126: finally { loading = false }.
Finally(isLoading) == FALSE

LazyInit ==
    /\ OutsideLazyUnused
    /\ lazyDelegate = "null"
    /\ lazyLoading = FALSE
    /\ lazyError = "null"
    /\ attempts = 0
    /\ callers = [c \in Callers |-> IdleCaller]

\* A method of the lazy delegate is called (lines 131-150) and runs
\* ensureDelegate (lines 100-120) up to its first await, return or throw.
LazyCall(c, method, args) ==
    /\ callers[c].pc = "idle"
    /\ LET called == [callers[c] EXCEPT !.method = method, !.args = args]
       IN IF lazyDelegate # "null"
          THEN /\ callers' = [callers EXCEPT ![c] = [called EXCEPT !.pc = "ensured",
                                                                  !.ensured = lazyDelegate]]
               /\ UNCHANGED <<lazyLoading, attempts>>
          ELSE IF lazyError # "null"
          THEN /\ callers' = [callers EXCEPT ![c] = [called EXCEPT !.pc = "ensureFailed",
                                                                  !.ensured = lazyError]]
               /\ UNCHANGED <<lazyLoading, attempts>>
          ELSE IF MustWait(lazyLoading)
          THEN /\ callers' = [callers EXCEPT ![c] = [called EXCEPT !.pc = "waiting"]]
               /\ UNCHANGED <<lazyLoading, attempts>>
          ELSE /\ lazyLoading' = TRUE
               /\ attempts' = attempts + 1
               /\ callers' = [callers EXCEPT ![c] = [called EXCEPT
                                 !.pc = "constructing",
                                 !.ensured = ToString(attempts + 1)]]
    /\ UNCHANGED <<outsideLazy, lazyDelegate, lazyError>>

\* Lines 109-115: the 10 ms timer of a waiting caller fires.
LazyTimer(c) ==
    /\ callers[c].pc = "waiting"
    /\ callers' = IF StillLoading(lazyLoading) THEN callers
                  ELSE IF lazyError # "null"
                  THEN [callers EXCEPT ![c].pc = "ensureFailed", ![c].ensured = lazyError]
                  ELSE [callers EXCEPT ![c].pc = "ensured", ![c].ensured = lazyDelegate]
    /\ UNCHANGED <<outsideLazy, lazyDelegate, lazyLoading, lazyError, attempts>>

\* Lines 120-127: createHttpDelegate(options) fulfils for the caller awaiting it.
LazyConstructed(c) ==
    /\ callers[c].pc = "constructing"
    /\ lazyDelegate' = "delegate#" \o callers[c].ensured
    /\ lazyLoading' = Finally(lazyLoading)
    /\ callers' = [callers EXCEPT ![c].pc = "ensured",
                                  ![c].ensured = "delegate#" \o callers[c].ensured]
    /\ UNCHANGED <<outsideLazy, lazyError, attempts>>

\* Lines 121-126: createHttpDelegate(options) rejects for the caller awaiting it.
LazyConstructionFails(c) ==
    /\ callers[c].pc = "constructing"
    /\ lazyError' = FailureKept("error#" \o callers[c].ensured)
    /\ lazyLoading' = Finally(lazyLoading)
    /\ callers' = [callers EXCEPT ![c].pc = "ensureFailed",
                                  ![c].ensured = "error#" \o callers[c].ensured]
    /\ UNCHANGED <<outsideLazy, lazyDelegate, attempts>>

\* `const d = await ensureDelegate(); return d.get<T>(url)`: the method goes on
\* with the delegate and calls its method.
LazyForward(c) ==
    /\ callers[c].pc = "ensured"
    /\ callers' = [callers EXCEPT
                     ![c].pc = "forwarded",
                     ![c].on = callers[c].ensured,
                     ![c].forwarded = ForwardedArguments(callers[c].method, callers[c].args)]
    /\ UNCHANGED <<outsideLazy, lazyDelegate, lazyLoading, lazyError, attempts>>

\* `await ensureDelegate()` rejected: the method's promise rejects with the error.
LazyReject(c) ==
    /\ callers[c].pc = "ensureFailed"
    /\ callers' = [callers EXCEPT ![c].pc = "rejected"]
    /\ UNCHANGED <<outsideLazy, lazyDelegate, lazyLoading, lazyError, attempts>>

LazyNext ==
    \/ \E c \in Callers, method \in HttpMethods, url \in CallerUrls, body \in CallerBodies,
          headers \in CallerHeaders :
          \E beforeResult \in BeforeResults(1, BuildContext(method, url, body, headers)) :
             LazyCall(c, method, InterceptedArguments(method, url, body, headers, beforeResult))
    \/ \E c \in Callers :
         \/ LazyTimer(c)
         \/ LazyConstructed(c)
         \/ LazyConstructionFails(c)
         \/ LazyForward(c)
         \/ LazyReject(c)

LazySpec == LazyInit /\ [][LazyNext]_vars

\* The event loop runs every timer that is due and every continuation of a
\* settled promise: the 10 ms timer of a waiting caller (line 110) and the
\* continuation of `await ensureDelegate()` are taken when they stay enabled.
\* Nothing obliges createHttpDelegate itself to settle.
LazyFairness ==
    \A c \in Callers :
        /\ WF_vars(LazyTimer(c))
        /\ WF_vars(LazyForward(c))
        /\ WF_vars(LazyReject(c))

\* The calls made on the lazy delegate itself, with no interceptor in front:
\* get(url), delete(url), post(url, body), put(url, body), patch(url, body).
DirectArguments(method) ==
    [url |-> "/x",
     bodyOrOptions |-> IF method \in {"get", "delete"} THEN "undefined" ELSE "b0",
     optionsArg |-> "undefined"]

LazyDirectNext ==
    \/ \E c \in Callers, method \in HttpMethods : LazyCall(c, method, DirectArguments(method))
    \/ \E c \in Callers :
         \/ LazyTimer(c)
         \/ LazyConstructed(c)
         \/ LazyConstructionFails(c)
         \/ LazyForward(c)
         \/ LazyReject(c)

LazyDirectSpec == LazyInit /\ [][LazyDirectNext]_vars

LazyFairSpec == LazyDirectSpec /\ LazyFairness

(***************************************************************************)
(* The delegate factory and the capability detectors                       *)
(* (src/utils/delegate.utils.ts, lines 53-93, and createHttpDelegate).     *)
(* An object is given by the set of its property names.                    *)
(***************************************************************************)
\* The members of ServerSentEventDelegate (types/delegate.type.ts, lines 24-30).
ServerSentEventMethods == {"close", "onOpen", "onError", "onMessage", "subscribe"}

DelegateKeys == HttpMethods \cup WebSocketMethods \cup ServerSentEventMethods

\* 'connect' in delegate && 'send' in delegate && 'close' in delegate
isWebSocketDelegate(keys) == {"connect", "send", "close"} \subseteq keys

\* 'onMessage' in delegate && 'onError' in delegate && 'onOpen' in delegate
\* && 'onClose' in delegate
isServerSentEventDelegate(keys) == {"onMessage", "onError", "onOpen", "onClose"} \subseteq keys

DelegateTypes == {"http", "websocket", "server-sent-event", "unsupported"}

HttpImpls == {"fetch", "axios", "better-fetch", "unsupported", "undefined"}

\* The arguments of createDelegate: an object without a type key (a delegate,
\* or any other object) or an options object.
FactoryInputs ==
    { [hasType |-> FALSE, type |-> "undefined", impl |-> "undefined", keys |-> ks] :
         ks \in SUBSET DelegateKeys }
    \cup { [hasType |-> TRUE, type |-> t, impl |-> i, keys |-> {"type", "impl", "baseURL"}] :
              t \in DelegateTypes, i \in HttpImpls }

\* createDelegate (lines 75-93): options of a known type give the lazy HTTP
\* delegate, the WebSocket delegate or the lazy SSE delegate; options of another
\* type throw; anything without a type key is returned as it is.
createDelegate(delegateOrOptions) ==
    IF delegateOrOptions.hasType
    THEN CASE delegateOrOptions.type = "http" ->
                [status |-> "returned", keys |-> HttpMethods, same |-> FALSE, lazy |-> TRUE,
                 error |-> "none"]
           [] delegateOrOptions.type = "websocket" ->
                [status |-> "returned", keys |-> WebSocketMethods, same |-> FALSE,
                 lazy |-> FALSE, error |-> "none"]
           [] delegateOrOptions.type = "server-sent-event" ->
                [status |-> "returned", keys |-> ServerSentEventMethods, same |-> FALSE,
                 lazy |-> TRUE, error |-> "none"]
           [] OTHER ->
                [status |-> "thrown", keys |-> {}, same |-> FALSE, lazy |-> FALSE,
                 error |-> "Unsupported delegate type"]
    ELSE [status |-> "returned", keys |-> delegateOrOptions.keys, same |-> TRUE,
          lazy |-> FALSE, error |-> "none"]

\* createHttpDelegate (delegate/http-delegate.utils.ts, lines 7-19): the adapter
\* built for options.impl; the dynamic import of an optional adapter may fail.
createHttpDelegate(impl) ==
    CASE impl = "axios" -> {"axios", "importError"}
      [] impl = "better-fetch" -> {"better-fetch", "importError"}
      [] OTHER -> {"fetch"}

FactoryInit ==
    /\ OutsideFactoryUnused
    /\ fInput \in FactoryInputs
    /\ fPc = "start"
    /\ fCreated = NotCreated
    /\ fDetected = NotDetected
    /\ fBuilt = "none"

\* createDelegate(fInput) is called.
FactoryCreate ==
    /\ fPc = "start"
    /\ fCreated' = createDelegate(fInput)
    /\ fPc' = "created"
    /\ UNCHANGED <<outsideFactory, fInput, fDetected, fBuilt>>

\* The three detectors are applied to the object createDelegate returned.
FactoryDetect ==
    /\ fPc = "created"
    /\ fCreated.status = "returned"
    /\ fDetected' = [http |-> isHttpDelegate(fCreated.keys),
                     websocket |-> isWebSocketDelegate(fCreated.keys),
                     sse |-> isServerSentEventDelegate(fCreated.keys)]
    /\ fPc' = "detected"
    /\ UNCHANGED <<outsideFactory, fInput, fCreated, fBuilt>>

\* The first method call of a lazy HTTP delegate has ensureDelegate call
\* createHttpDelegate(options) (delegate.utils.ts, line 120).
FactoryFirstUse ==
    /\ fPc = "detected"
    /\ fInput.hasType /\ fInput.type = "http"
    /\ fBuilt' \in createHttpDelegate(fInput.impl)
    /\ fPc' = "built"
    /\ UNCHANGED <<outsideFactory, fInput, fCreated, fDetected>>

FactoryNext ==
    \/ FactoryCreate
    \/ FactoryDetect
    \/ FactoryFirstUse

FactorySpec == FactoryInit /\ [][FactoryNext]_vars

(***************************************************************************)
(* withOffline (with-offline.feature.ts): createOfflineManager and         *)
(* wrapHttpDelegateWithOffline.  Each action is one synchronous segment of *)
(* a wrapped method, or a change of the environment.                       *)
(***************************************************************************)
Strategies == {"cache-first", "network-first", "network-only"}

\* The values of config.cacheTTL, in clock ticks.
CacheTTLs == {1, 2}

OfflineMethods == {"get", "post"}

\* What the transport may resolve with: an object, another object, the empty
\* text of a response without a body.
OfflineResults == {"r1", "r2", ""}

\* JavaScript truthiness of the values of the model.
IsTruthy(v) == v \notin {"undefined", "null", ""}

JsonStringify(v) == "\"" \o v \o "\""

\* Lines 419-422: `${method}:${url}:${bodyStr}`.
generateCacheKey(method, url, body) ==
    method \o ":" \o url \o ":" \o (IF IsTruthy(body) THEN JsonStringify(body) ELSE "")

\* Mutant: an entry is returned whatever its age.
getFromCache_NoExpiry(c, cacheKey, t) ==
    IF cacheKey \notin DOMAIN c THEN "null" ELSE c[cacheKey].data

\* Lines 424-436, the value getFromCache returns: null without an entry or for
\* an expired one, else the entry's data.
getFromCache(c, cacheKey, t) ==
    IF cacheKey \notin DOMAIN c THEN "null"
    ELSE IF t - c[cacheKey].timestamp > c[cacheKey].ttl THEN "null"
    ELSE c[cacheKey].data

\* Mutant: getFromCache deletes the entry it reads, expired or not.
CacheAfterGet_EvictsLive(c, cacheKey, t) == [k \in DOMAIN c \ {cacheKey} |-> c[k]]

\* Lines 430-432, the cache after getFromCache: an expired entry is deleted.
CacheAfterGet(c, cacheKey, t) ==
    IF cacheKey \in DOMAIN c /\ t - c[cacheKey].timestamp > c[cacheKey].ttl
    THEN [k \in DOMAIN c \ {cacheKey} |-> c[k]]
    ELSE c

\* Mutant: an entry already in the Map is kept.
setInCache_KeepFirst(c, cacheKey, data, t, ttl) ==
    [k \in DOMAIN c \cup {cacheKey} |->
        IF k \in DOMAIN c THEN c[k] ELSE [data |-> data, timestamp |-> t, ttl |-> ttl]]

\* Lines 438-444: cache.set(cacheKey, { data, timestamp: Date.now(), ttl: cacheTTL }).
setInCache(c, cacheKey, data, t, ttl) ==
    [k \in DOMAIN c \cup {cacheKey} |->
        IF k = cacheKey THEN [data |-> data, timestamp |-> t, ttl |-> ttl] ELSE c[k]]

\* Lines 472, 499 and 508: if (cached).
CacheHit(cached) == IsTruthy(cached)

\* The entry under cacheKey that has not expired at time t, if there is one.
LiveEntry(c, cacheKey, t) ==
    IF cacheKey \in DOMAIN c /\ t - c[cacheKey].timestamp <= c[cacheKey].ttl
    THEN [present |-> TRUE, data |-> c[cacheKey].data]
    ELSE NoEntry

\* Mutant: the result of the transport is cached under every strategy.
StoresResult_Always(s) == TRUE

\* Lines 480 and 495: only cache-first and network-first call setInCache.
StoresResult(s) == s \in {"cache-first", "network-first"}

OfflineInit ==
    /\ OutsideOfflineUnused
    /\ strategy \in Strategies
    /\ cacheTTL \in CacheTTLs
    /\ cache = EmptyObject
    /\ now = 0
    /\ online \in BOOLEAN
    /\ offlineCall = NoOfflineCall
    /\ offlineOutcome = [status |-> "none", value |-> "undefined"]

\* Lines 462-521 up to the first await, return or throw: the wrapped method
\* is called while no other request is in progress.  Successive requests
\* are told apart by the id of the call, which alternates.
OfflineRequest(method, url, body) ==
    /\ offlineCall.pc \in {"idle", "resolved", "rejected"}
    /\ LET isGetOrDelete == method = "get" \/ method = "delete"
           cacheKey == generateCacheKey(method, url, IF isGetOrDelete THEN "undefined" ELSE body)
           cached == getFromCache(cache, cacheKey, now)
           called == [NoOfflineCall EXCEPT !.id = 1 - offlineCall.id,
                                           !.method = method, !.key = cacheKey,
                                           !.entryAtCall = LiveEntry(cache, cacheKey, now),
                                           !.onlineAtCall = online]
           read == [called EXCEPT !.cached = cached,
                                  !.evicted = cacheKey \in DOMAIN cache
                                              /\ cacheKey \notin DOMAIN CacheAfterGet(cache, cacheKey, now)]
           return(c, v) == /\ offlineCall' = [c EXCEPT !.pc = "resolved"]
                           /\ offlineOutcome' = [status |-> "fulfilled", value |-> v]
           throw(c, e) == /\ offlineCall' = [c EXCEPT !.pc = "rejected"]
                          /\ offlineOutcome' = [status |-> "rejected", value |-> e]
           await(c) == /\ offlineCall' = [c EXCEPT !.pc = "awaitOriginal", !.transportCalls = 1]
                       /\ offlineOutcome' = [status |-> "pending", value |-> "undefined"]
       IN CASE strategy = "cache-first" ->
                 /\ cache' = CacheAfterGet(cache, cacheKey, now)
                 /\ IF CacheHit(cached) THEN return(read, cached)
                    ELSE IF online THEN await(read)
                    ELSE throw(read, "[OFFLINE] No cache available and offline")
            [] strategy = "network-first" ->
                 IF online THEN await(called) /\ UNCHANGED cache
                 ELSE /\ cache' = CacheAfterGet(cache, cacheKey, now)
                      /\ IF CacheHit(cached) THEN return(read, cached)
                         ELSE throw(read, "[OFFLINE] Offline and no cache")
            [] OTHER ->
                 /\ UNCHANGED cache
                 /\ IF ~online THEN throw(called, "[OFFLINE] Network unavailable")
                    ELSE await(called)
    /\ UNCHANGED <<outsideOffline, strategy, cacheTTL, now, online>>

\* Lines 479-481, 494-496 and 518: the original method fulfils with result.
OfflineOriginalFulfils(result) ==
    /\ offlineCall.pc = "awaitOriginal"
    /\ cache' = IF StoresResult(strategy)
                THEN setInCache(cache, offlineCall.key, result, now, cacheTTL)
                ELSE cache
    /\ offlineCall' = [offlineCall EXCEPT
                          !.pc = "resolved",
                          !.transportResult = [status |-> "fulfilled", value |-> result],
                          !.entryAfterSuccess = LiveEntry(cache', offlineCall.key, now)]
    /\ offlineOutcome' = [status |-> "fulfilled", value |-> result]
    /\ UNCHANGED <<outsideOffline, strategy, cacheTTL, now, online>>

\* Lines 482-485, 497-504 and 518: the original method rejects with err.
OfflineOriginalRejects(err) ==
    /\ offlineCall.pc = "awaitOriginal"
    /\ LET cached == getFromCache(cache, offlineCall.key, now)
           failed == [offlineCall EXCEPT
                         !.transportResult = [status |-> "rejected", value |-> err],
                         !.entryAtFailure = LiveEntry(cache, offlineCall.key, now)]
           read == [failed EXCEPT !.cached = cached,
                                  !.evicted = offlineCall.key \in DOMAIN cache
                                              /\ offlineCall.key \notin
                                                    DOMAIN CacheAfterGet(cache, offlineCall.key, now)]
       IN IF strategy = "network-first"
          THEN /\ cache' = CacheAfterGet(cache, offlineCall.key, now)
               /\ IF CacheHit(cached)
                  THEN /\ offlineCall' = [read EXCEPT !.pc = "resolved"]
                       /\ offlineOutcome' = [status |-> "fulfilled", value |-> cached]
                  ELSE /\ offlineCall' = [read EXCEPT !.pc = "rejected"]
                       /\ offlineOutcome' = [status |-> "rejected", value |-> err]
          ELSE /\ UNCHANGED cache
               /\ offlineCall' = [failed EXCEPT !.pc = "rejected"]
               /\ offlineOutcome' = [status |-> "rejected", value |-> err]
    /\ UNCHANGED <<outsideOffline, strategy, cacheTTL, now, online>>

\* Time passes.
Tick ==
    /\ now < MaxTime
    /\ now' = now + 1
    /\ UNCHANGED <<outsideOffline, strategy, cacheTTL, cache, online, offlineCall, offlineOutcome>>

\* The browser goes online or offline.
SetOnline(b) ==
    /\ online # b
    /\ online' = b
    /\ UNCHANGED <<outsideOffline, strategy, cacheTTL, cache, now, offlineCall, offlineOutcome>>

\* offline.clearCache(): cache.clear().
ClearCache ==
    /\ cache # EmptyObject
    /\ cache' = EmptyObject
    /\ UNCHANGED <<outsideOffline, strategy, cacheTTL, now, online, offlineCall, offlineOutcome>>

\* offline.setInCache(cacheKey, data), called on the manager itself.
ManagerSetInCache(method, url, data) ==
    /\ cache' = setInCache(cache, generateCacheKey(method, url, "undefined"), data, now, cacheTTL)
    /\ UNCHANGED <<outsideOffline, strategy, cacheTTL, now, online, offlineCall, offlineOutcome>>

OfflineNext ==
    \/ \E method \in OfflineMethods, url \in CallerUrls, body \in CallerBodies :
          OfflineRequest(method, url, body)
    \/ \E result \in OfflineResults : OfflineOriginalFulfils(result)
    \/ \E err \in TransportErrors : OfflineOriginalRejects(err)
    \/ Tick
    \/ \E b \in BOOLEAN : SetOnline(b)
    \/ ClearCache
    \/ \E url \in CallerUrls, data \in OfflineResults : ManagerSetInCache("get", url, data)

OfflineSpec == OfflineInit /\ [][OfflineNext]_vars

(***************************************************************************)
(* wrapHttpDelegateWithOffline with strategy 'cache-first' (lines 470-489) *)
(* under overlapping calls: every caller calls a wrapped method once, and  *)
(* a call that awaits the original method leaves the other callers free to *)
(* run.  The manager is the one of createOfflineManager above.             *)
(***************************************************************************)
RaceInit ==
    /\ OutsideRaceUnused
    /\ raceCache = EmptyObject
    /\ raceTTL \in CacheTTLs
    /\ raceNow = 0
    /\ raceOnline \in BOOLEAN
    /\ raceCalls = [c \in Callers |-> NoRaceCall]
    /\ raceTransportCalls = 0
    /\ raceSettled = 0

\* Lines 462-489 up to the first await, return or throw.  The call notes
\* whether the Map had an entry under its key and which calls for the same
\* key were awaiting the original method.
RaceRequest(c, method, url, body) ==
    /\ raceCalls[c].pc = "idle"
    /\ LET isGetOrDelete == method = "get" \/ method = "delete"
           cacheKey == generateCacheKey(method, url, IF isGetOrDelete THEN "undefined" ELSE body)
           cached == getFromCache(raceCache, cacheKey, raceNow)
           call == [raceCalls[c] EXCEPT
                       !.key = cacheKey,
                       !.cold = cacheKey \notin DOMAIN raceCache,
                       !.inFlight = {d \in Callers : /\ raceCalls[d].pc = "awaitOriginal"
                                                     /\ raceCalls[d].key = cacheKey}]
       IN /\ raceCache' = CacheAfterGet(raceCache, cacheKey, raceNow)
          /\ IF CacheHit(cached)
             THEN /\ raceCalls' = [raceCalls EXCEPT ![c] =
                                      [call EXCEPT !.pc = "resolved", !.returned = cached]]
                  /\ UNCHANGED raceTransportCalls
             ELSE IF raceOnline
             THEN /\ raceCalls' = [raceCalls EXCEPT ![c] =
                                      [call EXCEPT !.pc = "awaitOriginal",
                                                   !.called = raceTransportCalls + 1]]
                  /\ raceTransportCalls' = raceTransportCalls + 1
             ELSE /\ raceCalls' = [raceCalls EXCEPT ![c] =
                                      [call EXCEPT !.pc = "rejected",
                                                   !.returned = "[OFFLINE] No cache available and offline"]]
                  /\ UNCHANGED raceTransportCalls
    /\ UNCHANGED <<outsideRace, raceTTL, raceNow, raceOnline, raceSettled>>

\* Lines 479-481: the original method fulfils for caller c; the result is
\* stored and returned.
RaceOriginalFulfils(c, result) ==
    /\ raceCalls[c].pc = "awaitOriginal"
    /\ raceCache' = setInCache(raceCache, raceCalls[c].key, result, raceNow, raceTTL)
    /\ raceSettled' = raceSettled + 1
    /\ raceCalls' = [raceCalls EXCEPT ![c] =
                        [raceCalls[c] EXCEPT !.pc = "resolved", !.transport = "fulfilled",
                                             !.result = result, !.returned = result,
                                             !.settledAt = raceSettled + 1]]
    /\ UNCHANGED <<outsideRace, raceTTL, raceNow, raceOnline, raceTransportCalls>>

\* Lines 482-485: the original method rejects for caller c; the error is
\* thrown again.
RaceOriginalRejects(c, err) ==
    /\ raceCalls[c].pc = "awaitOriginal"
    /\ raceSettled' = raceSettled + 1
    /\ raceCalls' = [raceCalls EXCEPT ![c] =
                        [raceCalls[c] EXCEPT !.pc = "rejected", !.transport = "rejected",
                                             !.result = err, !.returned = err,
                                             !.settledAt = raceSettled + 1]]
    /\ UNCHANGED <<outsideRace, raceCache, raceTTL, raceNow, raceOnline, raceTransportCalls>>

\* Time passes.
RaceTick ==
    /\ raceNow < MaxTime
    /\ raceNow' = raceNow + 1
    /\ UNCHANGED <<outsideRace, raceCache, raceTTL, raceOnline, raceCalls,
                   raceTransportCalls, raceSettled>>

RaceNext ==
    \/ \E c \in Callers, method \in OfflineMethods, url \in CallerUrls, body \in CallerBodies :
          RaceRequest(c, method, url, body)
    \/ \E c \in Callers, result \in OfflineResults : RaceOriginalFulfils(c, result)
    \/ \E c \in Callers, err \in TransportErrors : RaceOriginalRejects(c, err)
    \/ RaceTick

RaceSpec == RaceInit /\ [][RaceNext]_vars

(***************************************************************************)
(* withEnvironments (with-environments.feature.ts):                        *)
(* createEnvironmentManager and wrapHttpDelegateWithEnvironments.  URLs    *)
(* are sequences of characters.                                            *)
(***************************************************************************)
JsString(chars) == [type |-> "string", chars |-> chars]

JsUndefinedValue == [type |-> "undefined", chars |-> <<>>]

JsFunctionValue == [type |-> "function", chars |-> <<>>]

\* JavaScript truthiness of a property value: undefined and '' are falsy.
IsTruthyValue(v) == ~(v.type = "undefined" \/ (v.type = "string" /\ v.chars = <<>>))

\* a || b.
JsOr(a, b) == IF IsTruthyValue(a) THEN a ELSE b

\* Names every object inherits from Object.prototype.
ObjectPrototypeKeys == {"toString", "constructor"}

UrlDev == <<"h", "t", "t", "p", ":", "/", "/", "a">>

UrlProd == <<"h", "t", "t", "p", ":", "/", "/", "b", "/">>

\* The environment tables of the configurations, in declaration order.
EnvironmentTables ==
    { << [name |-> "dev", url |-> UrlDev], [name |-> "prod", url |-> UrlProd] >>,
      << [name |-> "prod", url |-> UrlProd], [name |-> "local", url |-> <<>>] >> }

\* Object.keys(config.environments).
ObjectKeys(environments) == [i \in 1..Len(environments) |-> environments[i].name]

DeclaredNames(environments) == {environments[i].name : i \in 1..Len(environments)}

\* default and fallback are optional and of type keyof Environment.
EnvConfigs ==
    UNION { [environments : {t},
             default : DeclaredNames(t) \cup {"undefined"},
             fallback : DeclaredNames(t) \cup {"undefined"}] : t \in EnvironmentTables }

\* What setEnvironment is called with: declared and undeclared names.
RequestedNames == {"dev", "prod", "local", "staging", "toString"}

\* config.environments[name]: an own property, else an inherited one, else
\* undefined.
GetEnvironment(environments, name) ==
    IF \E i \in 1..Len(environments) : environments[i].name = name
    THEN JsString(environments[CHOOSE i \in 1..Len(environments) :
                                   environments[i].name = name].url)
    ELSE IF name \in ObjectPrototypeKeys THEN JsFunctionValue
    ELSE JsUndefinedValue

\* a || b for names: the absent name is "undefined".
NameOr(a, b) == IF a # "undefined" THEN a ELSE b

\* Line 20-21: const defaultKey = config.default || environmentKeys[0].
defaultKey(config) ==
    NameOr(config.default,
           IF Len(config.environments) > 0 THEN ObjectKeys(config.environments)[1]
           ELSE "undefined")

\* Lines 28-37: the value setEnvironment(env) assigns to currentEnv.
setEnvironment(config, env) ==
    IF ~IsTruthyValue(GetEnvironment(config.environments, env))
    THEN NameOr(config.fallback, defaultKey(config))
    ELSE env

\* Lines 39-41: getBaseURL().
getBaseURL(config, current) ==
    JsOr(GetEnvironment(config.environments, current),
         GetEnvironment(config.environments,
                        IF Len(config.environments) > 0
                        THEN ObjectKeys(config.environments)[1] ELSE "undefined"))

startsWith(str, prefix) ==
    Len(str) >= Len(prefix) /\ SubSeq(str, 1, Len(prefix)) = prefix

\* baseURL.replace(/\/$/, ''): removes one trailing slash.
StripTrailingSlash(str) ==
    IF Len(str) > 0 /\ str[Len(str)] = "/" THEN SubSeq(str, 1, Len(str) - 1) ELSE str

\* Lines 51-62: buildFullURL(url) for a base URL that is a string.
buildFullURL(baseURL, url) ==
    IF startsWith(url, <<"h", "t", "t", "p">>) THEN url
    ELSE LET cleanBaseURL == StripTrailingSlash(baseURL)
             cleanPath == IF startsWith(url, <<"/">>) THEN url ELSE <<"/">> \o url
         IN cleanBaseURL \o cleanPath

\* The URLs a caller passes: relative paths with and without a leading slash,
\* a relative path whose first segment begins with "http", an absolute URL.
PathSlashX == <<"/", "x">>

PathX == <<"x">>

PathHttpX == <<"h", "t", "t", "p", "x">>

AbsoluteUrl == <<"h", "t", "t", "p", ":", "/", "/", "c", "/", "x">>

EnvCallerUrls == {PathSlashX, PathX, PathHttpX, AbsoluteUrl}

EnvInit ==
    /\ OutsideEnvUnused
    /\ envConfig \in EnvConfigs
    /\ currentEnv = defaultKey(envConfig)
    /\ lastSet = "none"
    /\ setThrew = FALSE
    /\ envCall = NoEnvCall

\* environments.setEnvironment(env).
EnvSetEnvironment(env) ==
    /\ currentEnv' = setEnvironment(envConfig, env)
    /\ lastSet' = env
    /\ UNCHANGED <<outsideEnv, envConfig, setThrew, envCall>>

\* A method of the wrapped delegate is called: the before hook of lines 65-67
\* runs in the call, its result is awaited (delegate-middleware, line 68).
EnvRequest(method, url) ==
    /\ envCall.pc \in {"idle", "resolved", "rejected"}
    /\ LET baseURL == getBaseURL(envConfig, currentEnv)
           called == [NoEnvCall EXCEPT !.method = method, !.url = url,
                                       !.envAtCall = currentEnv, !.baseAtCall = baseURL]
       IN IF startsWith(url, <<"h", "t", "t", "p">>) \/ baseURL.type = "string"
          THEN envCall' = [called EXCEPT
                              !.pc = "awaitBefore",
                              !.beforeResult = buildFullURL(baseURL.chars, url)]
          ELSE \* baseURL.replace is not a function: the hook throws a TypeError
               envCall' = [called EXCEPT !.pc = "rejected"]
    /\ UNCHANGED <<outsideEnv, envConfig, currentEnv, lastSet, setThrew>>

\* Lines 69-80 of the middleware: context = {...context, ...beforeResult},
\* then the original method is called with context.url and fulfils.
EnvCallOriginal ==
    /\ envCall.pc = "awaitBefore"
    /\ envCall' = [envCall EXCEPT !.pc = "resolved", !.transportUrl = envCall.beforeResult]
    /\ UNCHANGED <<outsideEnv, envConfig, currentEnv, lastSet, setThrew>>

EnvNext ==
    \/ \E env \in RequestedNames : EnvSetEnvironment(env)
    \/ \E method \in HttpMethods, url \in EnvCallerUrls : EnvRequest(method, url)
    \/ EnvCallOriginal

EnvSpec == EnvInit /\ [][EnvNext]_vars

(***************************************************************************)
(* withTelemetry (with-telemetry.feature.ts): createTelemetryCollector and *)
(* createTelemetryHttpInterceptor around wrapHttpDelegate.                 *)
(***************************************************************************)
TelemetryMethods == {"get", "post"}

\* Line 127: `${context.method.toUpperCase()} ${context.url}`.
Operation(method, url) == method \o " " \o url

\* Lines 62-88: updateMetrics(event), the request counters.
updateMetrics(enabled, m, type) ==
    IF ~enabled THEN m
    ELSE CASE type = "request" -> [m EXCEPT !.total = @ + 1]
           [] type = "response" -> [m EXCEPT !.success = @ + 1]
           [] type = "error" -> [m EXCEPT !.errors = @ + 1]

\* Lines 55-60: getMetrics().requests.
getMetrics(enabled, m) ==
    IF enabled THEN m ELSE [total |-> 0, success |-> 0, errors |-> 0]

TelemetryInit ==
    /\ OutsideTelemetryUnused
    /\ enableMetrics \in BOOLEAN
    /\ events = <<>>
    /\ metrics = [total |-> 0, success |-> 0, errors |-> 0]
    /\ startTimes = {}
    /\ telemetryCalls = [c \in Callers |-> NoTelemetryCall]
    /\ started = 0

\* Lines 40-49: recordEvent(event).
recordEvent(type, operation) ==
    /\ events' = Append(events, [type |-> type, operation |-> operation])
    /\ metrics' = updateMetrics(enableMetrics, metrics, type)

\* Caller c calls a method: the before hook (lines 125-140) runs, then the
\* original method is called.
TelemetryCall(c, method, url) ==
    /\ telemetryCalls[c].pc \in {"idle", "resolved", "rejected"}
    /\ started < MaxCalls
    /\ started' = started + 1
    /\ startTimes' = startTimes \cup {Operation(method, url)}
    /\ recordEvent("request", Operation(method, url))
    /\ telemetryCalls' = [telemetryCalls EXCEPT
                             ![c] = [pc |-> "awaitOriginal", operation |-> Operation(method, url)]]
    /\ UNCHANGED <<outsideTelemetry, enableMetrics>>

\* The original method of caller c's call fulfils (type "response") or
\* rejects (type "error"): the after hook (lines 141-161) or the error hook
\* (lines 162-180) records an event only if startTimes has the operation,
\* which is then deleted.
TelemetrySettle(c, type) ==
    /\ telemetryCalls[c].pc = "awaitOriginal"
    /\ LET operation == telemetryCalls[c].operation
       IN IF operation \in startTimes
          THEN /\ recordEvent(type, operation)
               /\ startTimes' = startTimes \ {operation}
          ELSE UNCHANGED <<events, metrics, startTimes>>
    /\ telemetryCalls' = [telemetryCalls EXCEPT
                             ![c].pc = IF type = "response" THEN "resolved" ELSE "rejected"]
    /\ UNCHANGED <<outsideTelemetry, enableMetrics, started>>

TelemetryNext ==
    \/ \E c \in Callers, method \in TelemetryMethods, url \in CallerUrls :
          TelemetryCall(c, method, url)
    \/ \E c \in Callers, type \in {"response", "error"} : TelemetrySettle(c, type)

TelemetrySpec == TelemetryInit /\ [][TelemetryNext]_vars

(***************************************************************************)
(* createTelemetryCollector (with-telemetry.feature.ts, lines 33-101): the *)
(* latency figures.  An average is kept as the fraction the code divides:  *)
(* the sum of the latencies over their number.                             *)
(***************************************************************************)
\* Date.now() - startData.time, in milliseconds.
Durations == 0..2

NoDuration == [defined |-> FALSE, ms |-> 0]

Duration(d) == [defined |-> TRUE, ms |-> d]

RECURSIVE SumOf(_)
SumOf(seq) == IF seq = <<>> THEN 0 ELSE Head(seq) + SumOf(Tail(seq))

RECURSIVE Positive(_)
\* Lines 91-94: the durations of the events that have one, those > 0 only.
Positive(evs) ==
    IF evs = <<>> THEN <<>>
    ELSE IF Head(evs).duration.defined /\ Head(evs).duration.ms > 0
    THEN <<Head(evs).duration.ms>> \o Positive(Tail(evs))
    ELSE Positive(Tail(evs))

Minimum(seq) == CHOOSE x \in {seq[i] : i \in DOMAIN seq} : \A i \in DOMAIN seq : x <= seq[i]

Maximum(seq) == CHOOSE x \in {seq[i] : i \in DOMAIN seq} : \A i \in DOMAIN seq : x >= seq[i]

\* Lines 90-101: updateLatency, over the events recorded so far.
updateLatency(evs, l) ==
    LET latencies == Positive(evs)
    IN IF Len(latencies) > 0
       THEN [avg |-> [sum |-> SumOf(latencies), count |-> Len(latencies)],
             min |-> Ms(Minimum(latencies)),
             max |-> Ms(Maximum(latencies))]
       ELSE l

\* Lines 62-88, the latency part of updateMetrics(event), called by
\* recordEvent after events.push(event): `if (event.duration)`.
updateMetricsLatency(enabled, evs, l, event) ==
    IF ~enabled \/ event.type = "request" THEN l
    ELSE IF event.duration.defined /\ event.duration.ms # 0 THEN updateLatency(evs, l)
    ELSE l

\* Lines 55-60: getMetrics().latency.
getMetricsLatency(enabled, l) ==
    IF enabled THEN l ELSE [avg |-> [sum |-> 0, count |-> 1], min |-> Ms(0), max |-> Ms(0)]

\* Lines 35-38: the collector as created.
LatencyInit ==
    /\ OutsideLatencyUnused
    /\ latEnabled \in BOOLEAN
    /\ latEvents = <<>>
    /\ latency = [avg |-> [sum |-> 0, count |-> 1], min |-> MAX_SAFE_INTEGER,
                  max |-> MIN_SAFE_INTEGER]

\* The calls that have started and not ended: request events less response
\* and error events.
Unsettled(evs) ==
    Cardinality({i \in DOMAIN evs : evs[i].type = "request"})
        - Cardinality({i \in DOMAIN evs : evs[i].type # "request"})

\* Lines 40-49: recordEvent(event).  The interceptors record a request event
\* without a duration when a call starts and a response or error event with
\* one when it ends (lines 125-180).
LatencyRecordEvent(type, duration) ==
    /\ Len(latEvents) < 2 * MaxCalls
    /\ type # "request" => Unsettled(latEvents) > 0
    /\ LET event == [type |-> type, duration |-> duration]
       IN /\ latEvents' = Append(latEvents, event)
          /\ latency' = updateMetricsLatency(latEnabled, latEvents', latency, event)
    /\ UNCHANGED <<outsideLatency, latEnabled>>

LatencyNext ==
    \/ LatencyRecordEvent("request", NoDuration)
    \/ \E type \in {"response", "error"}, d \in Durations :
          LatencyRecordEvent(type, Duration(d))

LatencySpec == LatencyInit /\ [][LatencyNext]_vars

(***************************************************************************)
(* One feature value applied to several accumulators: withOffline          *)
(* (part_014, lines 542-552), withTelemetry (with-telemetry.feature.ts,    *)
(* lines 287-297), withEnvironments (with-environments.feature.ts, lines   *)
(* 91-102).  Each returns a function that creates the manager when called. *)
(***************************************************************************)
ManagerFeatures == {"withOffline", "withTelemetry", "withEnvironments"}

\* The configuration the withEnvironments feature value was made with.
ManagerEnvConfig ==
    [environments |-> << [name |-> "dev", url |-> UrlDev], [name |-> "prod", url |-> UrlProd] >>,
     default |-> "undefined", fallback |-> "undefined"]

\* createOfflineManager / createTelemetryCollector / createEnvironmentManager:
\* an empty cache, zeroed metrics, the default environment.
NewManager ==
    [cache |-> EmptyObject,
     metrics |-> [total |-> 0, success |-> 0, errors |-> 0],
     currentEnv |-> defaultKey(ManagerEnvConfig)]

\* Mutant: the manager is created once, with the feature value.
ManagerOfApplication_Shared(managers) == 1

\* const manager = create...(config) inside the returned function: every
\* application has a manager of its own.
ManagerOfApplication(managers) == Len(managers) + 1

ManagerInit ==
    /\ OutsideManagerUnused
    /\ mFeature \in ManagerFeatures
    /\ mManagers = <<>>
    /\ mClients = <<>>
    /\ mActor = 0

\* The feature value is applied to an accumulator and yields a client.
ManagerApply ==
    /\ Len(mClients) < MaxClients
    /\ LET m == ManagerOfApplication(mManagers)
       IN /\ mManagers' = IF m > Len(mManagers) THEN Append(mManagers, NewManager)
                          ELSE mManagers
          /\ mClients' = Append(mClients, m)
    /\ mActor' = 0
    /\ UNCHANGED <<outsideManager, mFeature>>

\* A cache-first request of client i fulfils and is stored (setInCache).
ManagerStore(i, method, result) ==
    /\ mFeature = "withOffline"
    /\ i \in 1..Len(mClients)
    /\ mManagers' = [mManagers EXCEPT
                        ![mClients[i]].cache =
                            setInCache(@, generateCacheKey(method, "/x", "b0"), result, 0, 1)]
    /\ mActor' = i
    /\ UNCHANGED <<outsideManager, mFeature, mClients>>

\* client i's offline.clearCache().
ManagerClearCache(i) ==
    /\ mFeature = "withOffline"
    /\ i \in 1..Len(mClients)
    /\ mManagers' = [mManagers EXCEPT ![mClients[i]].cache = EmptyObject]
    /\ mActor' = i
    /\ UNCHANGED <<outsideManager, mFeature, mClients>>

\* A request through client i's delegate records an event of the given type.
ManagerRecord(i, type) ==
    /\ mFeature = "withTelemetry"
    /\ i \in 1..Len(mClients)
    /\ mManagers[mClients[i]].metrics.total < MaxCalls
    /\ type = "request" \/ mManagers[mClients[i]].metrics.total
                             > mManagers[mClients[i]].metrics.success
                               + mManagers[mClients[i]].metrics.errors
    /\ mManagers' = [mManagers EXCEPT ![mClients[i]].metrics = updateMetrics(TRUE, @, type)]
    /\ mActor' = i
    /\ UNCHANGED <<outsideManager, mFeature, mClients>>

\* client i's environments.setEnvironment(env).
ManagerSetEnvironment(i, env) ==
    /\ mFeature = "withEnvironments"
    /\ i \in 1..Len(mClients)
    /\ mManagers' = [mManagers EXCEPT
                        ![mClients[i]].currentEnv = setEnvironment(ManagerEnvConfig, env)]
    /\ mActor' = i
    /\ UNCHANGED <<outsideManager, mFeature, mClients>>

ManagerNext ==
    \/ ManagerApply
    \/ \E i \in 1..MaxClients, method \in OfflineMethods, result \in OfflineResults :
          ManagerStore(i, method, result)
    \/ \E i \in 1..MaxClients : ManagerClearCache(i)
    \/ \E i \in 1..MaxClients, type \in {"request", "response", "error"} : ManagerRecord(i, type)
    \/ \E i \in 1..MaxClients, env \in RequestedNames : ManagerSetEnvironment(i, env)

ManagerSpec == ManagerInit /\ [][ManagerNext]_vars

(***************************************************************************)
(* wrapWebSocketDelegate (delegate-middleware, part_009 lines 115-154).    *)
(* connect, send and close are synchronous functions: a call is one step.  *)
(***************************************************************************)
WrappedWsMethods == {"connect", "send", "close"}

\* A hook is absent, returns (a value or a promise that fulfils), throws
\* before returning, or returns a promise that rejects.
HookBehaviours == {"absent", "returns", "throws", "rejects"}

WsInterceptors == [WrappedWsMethods -> [before : HookBehaviours, after : HookBehaviours]]

\* Promise.resolve(hook(message)).catch(console.error) for a hook that is
\* present: the hook is called with the message; an exception it throws
\* leaves the expression, a rejection is left to the catch handler.
RunHook(name, behaviour, message) ==
    [log |-> IF behaviour = "absent" THEN <<>> ELSE << [ev |-> name, arg |-> message] >>,
     threw |-> behaviour = "throws",
     rejected |-> behaviour = "rejects"]

\* Lines 118-152: the body of a wrapped method.
WrappedMethod(hooks, message, originalThrows) ==
    LET before == RunHook("before", hooks.before, message)
        original == << [ev |-> "original", arg |-> message] >>
        after == RunHook("after", hooks.after, message)
    IN IF before.threw
       THEN [log |-> before.log, outcome |-> "hookError", rejections |-> 0]
       ELSE IF originalThrows
       THEN [log |-> before.log \o original, outcome |-> "originalError",
             rejections |-> IF before.rejected THEN 1 ELSE 0]
       ELSE IF after.threw
       THEN [log |-> before.log \o original \o after.log, outcome |-> "hookError",
             rejections |-> IF before.rejected THEN 1 ELSE 0]
       ELSE [log |-> before.log \o original \o after.log, outcome |-> "returned",
             rejections |-> (IF before.rejected THEN 1 ELSE 0)
                            + (IF after.rejected THEN 1 ELSE 0)]

WsInit ==
    /\ OutsideWsUnused
    /\ wsInterceptor \in WsInterceptors
    /\ wsCall = NoWsCall
    /\ wsRejections = 0
    /\ wsConsole = 0

\* connect(), send(message) or close() is called on the wrapped delegate.
WsCallMethod(method, message, originalThrows) ==
    /\ wsRejections = 0
    /\ LET run == WrappedMethod(wsInterceptor[method], message, originalThrows)
       IN /\ wsCall' = [method |-> method, message |-> message, log |-> run.log,
                        outcome |-> run.outcome]
          /\ wsRejections' = run.rejections
    /\ wsConsole' = 0
    /\ UNCHANGED <<outsideWs, wsInterceptor>>

\* The catch handler of a rejected hook promise runs: console.error(reason).
WsCatch ==
    /\ wsRejections > 0
    /\ wsRejections' = wsRejections - 1
    /\ wsConsole' = wsConsole + 1
    /\ UNCHANGED <<outsideWs, wsInterceptor, wsCall>>

WsNext ==
    \/ \E method \in WrappedWsMethods, originalThrows \in BOOLEAN :
          WsCallMethod(method, IF method = "send" THEN "m0" ELSE "undefined", originalThrows)
    \/ WsCatch

WsSpec == WsInit /\ [][WsNext]_vars

(***************************************************************************)
(* Subscriptions: createWebSocketDelegate (websocket-delegate.utils.ts,    *)
(* lines 99-114) and createLazyServerSentEventDelegate (delegate.utils.ts, *)
(* lines 189-215) over createServerSentEventDelegate (lines 52-73).        *)
(***************************************************************************)
SubscriptionMethods(kind) ==
    IF kind = "websocket" THEN {"onOpen", "onClose", "onError", "onMessage"}
    ELSE {"onOpen", "onError", "onMessage", "subscribe"}

\* What the subscription method returns to its caller, and whether the
\* listener is registered when it returns.  The WebSocket delegate adds the
\* callback and returns () => listeners.delete(callback); the lazy SSE
\* delegate starts ensureDelegate().then(...) and returns nothing.
SubscriptionCall(kind, method) ==
    IF kind = "websocket"
    THEN [method |-> method, returned |-> "function", state |-> "registered",
          unsubscribed |-> FALSE, invoked |-> 0, invokedAfterUnsubscribe |-> FALSE]
    ELSE [method |-> method, returned |-> "undefined", state |-> "pending",
          unsubscribed |-> FALSE, invoked |-> 0, invokedAfterUnsubscribe |-> FALSE]

SubInit ==
    /\ OutsideSubUnused
    /\ subKind \in {"websocket", "server-sent-event"}
    /\ subscriptions = <<>>

\* delegate.onOpen(callback), ..., delegate.subscribe(event, callback).
Subscribe(method) ==
    /\ Len(subscriptions) < MaxCalls
    /\ method \in SubscriptionMethods(subKind)
    /\ subscriptions' = Append(subscriptions, SubscriptionCall(subKind, method))
    /\ UNCHANGED <<outsideSub, subKind>>

\* .then((d) => d.onOpen(callback)) of the lazy SSE delegate runs: the
\* callback is added; the function d.onOpen returns is dropped.
SubRegister(i) ==
    /\ i \in 1..Len(subscriptions)
    /\ subscriptions[i].state = "pending"
    /\ subscriptions' = [subscriptions EXCEPT ![i].state = "registered"]
    /\ UNCHANGED <<outsideSub, subKind>>

\* The caller calls the function the subscription method returned.
Unsubscribe(i) ==
    /\ i \in 1..Len(subscriptions)
    /\ subscriptions[i].returned = "function"
    /\ subscriptions' = [subscriptions EXCEPT ![i].state = "removed", ![i].unsubscribed = TRUE]
    /\ UNCHANGED <<outsideSub, subKind>>

\* An event arrives: the listeners registered for it are called.
Dispatch(method) ==
    /\ method \in SubscriptionMethods(subKind)
    /\ \E i \in 1..Len(subscriptions) : subscriptions[i].method = method
    /\ subscriptions' =
          [i \in 1..Len(subscriptions) |->
              IF subscriptions[i].method = method /\ subscriptions[i].state = "registered"
              THEN [subscriptions[i] EXCEPT
                       !.invoked = IF @ < 1 THEN @ + 1 ELSE @,
                       !.invokedAfterUnsubscribe = @ \/ subscriptions[i].unsubscribed]
              ELSE subscriptions[i]]
    /\ UNCHANGED <<outsideSub, subKind>>

SubNext ==
    \/ \E method \in {"onOpen", "onClose", "onError", "onMessage", "subscribe"} : Subscribe(method)
    \/ \E i \in 1..MaxCalls : SubRegister(i)
    \/ \E i \in 1..MaxCalls : Unsubscribe(i)
    \/ \E method \in {"onOpen", "onClose", "onError", "onMessage", "subscribe"} : Dispatch(method)

SubSpec == SubInit /\ [][SubNext]_vars

(***************************************************************************)
(* createWebSocketDelegate (utils/delegate/websocket-delegate.utils.ts).   *)
(* A WebSocket is "connecting", "open", "closing" (close() was called on   *)
(* it and its close event is still to come) or "closed".  The handlers of  *)
(* connect (lines 48-79) stay on every socket connect created.             *)
(***************************************************************************)
NewWebSocket == [state |-> "connecting", closedBy |-> "none"]

\* WebSocket.close(): starts the closing handshake of a socket that is
\* connecting or open, and does nothing to one closing or closed.
SocketClose(ss, i, by) ==
    IF i # 0 /\ ss[i].state \in {"connecting", "open"}
    THEN [ss EXCEPT ![i] = [state |-> "closing", closedBy |-> by]]
    ELSE ss

\* Lines 42-47: connect() closes the current socket, if any, and makes a new one.
Connect(by) ==
    /\ Len(sockets) < MaxSockets
    /\ sockets' = Append(SocketClose(sockets, socket, by), NewWebSocket)
    /\ socket' = Len(sockets) + 1

\* Lines 29-39: reconnect().
Reconnect ==
    IF reconnectTimer \/ reconnectAttempts >= maxReconnectAttempts
    THEN UNCHANGED <<reconnectTimer, reconnectAttempts, timers>>
    ELSE /\ reconnectAttempts' = reconnectAttempts + 1
         /\ reconnectTimer' = TRUE
         /\ timers' = timers + 1

\* Lines 20-27 and 117: the delegate is created and connects at once.
SocketInit ==
    /\ OutsideSocketUnused
    /\ socket = 1
    /\ sockets = <<NewWebSocket>>
    /\ reconnectTimer = FALSE
    /\ reconnectAttempts = 0
    /\ maxReconnectAttempts \in {1, 2}
    /\ timers = 0
    /\ userOp = "create"
    /\ dropped = FALSE

\* The user calls connect().
UserConnect ==
    /\ Connect("connect")
    /\ userOp' = "connect"
    /\ UNCHANGED <<outsideSocket, reconnectTimer, reconnectAttempts, maxReconnectAttempts,
                   timers, dropped>>

\* Lines 81-91: the user calls close().
UserClose ==
    /\ sockets' = SocketClose(sockets, socket, "close")
    /\ socket' = 0
    /\ reconnectTimer' = FALSE
    /\ timers' = IF reconnectTimer THEN timers - 1 ELSE timers
    /\ userOp' = "close"
    /\ UNCHANGED <<outsideSocket, reconnectAttempts, maxReconnectAttempts, dropped>>

\* Lines 48-53: the open event of socket i.
SocketOpens(i) ==
    /\ i \in DOMAIN sockets
    /\ sockets[i].state = "connecting"
    /\ sockets' = [sockets EXCEPT ![i].state = "open"]
    /\ reconnectAttempts' = 0
    /\ UNCHANGED <<outsideSocket, socket, reconnectTimer, maxReconnectAttempts, timers,
                   userOp, dropped>>

\* Lines 55-60: the close event of socket i, after close() was called on it.
SocketCloseEvent(i) ==
    /\ i \in DOMAIN sockets
    /\ sockets[i].state = "closing"
    /\ sockets' = [sockets EXCEPT ![i].state = "closed"]
    /\ Reconnect
    /\ UNCHANGED <<outsideSocket, socket, maxReconnectAttempts, userOp, dropped>>

\* Lines 55-60: the close event of socket i because the server refused or
\* dropped the connection.
ServerCloses(i) ==
    /\ i \in DOMAIN sockets
    /\ sockets[i].state \in {"connecting", "open"}
    /\ sockets' = [sockets EXCEPT ![i] = [state |-> "closed", closedBy |-> "server"]]
    /\ Reconnect
    /\ dropped' = TRUE
    /\ UNCHANGED <<outsideSocket, socket, maxReconnectAttempts, userOp>>

\* Lines 35-38: the reconnect timer fires.
ReconnectTimerFires ==
    /\ timers > 0
    /\ timers' = timers - 1
    /\ reconnectTimer' = FALSE
    /\ Connect("reconnect")
    /\ UNCHANGED <<outsideSocket, reconnectAttempts, maxReconnectAttempts, userOp, dropped>>

SocketNext ==
    \/ UserConnect
    \/ UserClose
    \/ ReconnectTimerFires
    \/ \E i \in 1..MaxSockets :
         \/ SocketOpens(i)
         \/ SocketCloseEvent(i)
         \/ ServerCloses(i)

SocketSpec == SocketInit /\ [][SocketNext]_vars

(***************************************************************************)
(* createServerSentEventDelegate                                           *)
(* (utils/delegate/server-sent-event-delegate.utils.ts, lines 17-74).      *)
(***************************************************************************)
SseEventTypes == {"open", "message", "error"}

\* Lines 28-50: the handlers the delegate installs on the EventSource, each
\* with the event type it handles and the listener set it goes through:
\* eventSource.onmessage, then the listeners added for 'open', 'message' and
\* 'error'.
InstalledHandlers ==
    << [type |-> "message", set |-> "message"],
       [type |-> "open", set |-> "open"],
       [type |-> "message", set |-> "message"],
       [type |-> "error", set |-> "error"] >>

\* The calls of callback cb one event of the given type causes: one for each
\* installed handler of the type whose set holds cb, one if subscribe added
\* a handler for the type with cb.
CallsFor(type, cb, listeners, subscribed) ==
    Cardinality({h \in DOMAIN InstalledHandlers :
                    /\ InstalledHandlers[h].type = type
                    /\ cb \in listeners[InstalledHandlers[h].set]})
        + (IF <<type, cb>> \in subscribed THEN 1 ELSE 0)

\* Lines 23-26: the delegate as created.
SseInit ==
    /\ OutsideSseUnused
    /\ sseListeners = [t \in SseEventTypes |-> {}]
    /\ sseSubscribed = {}
    /\ sseClosed = FALSE
    /\ sseEvents = 0
    /\ sseLast = NoSseEvent

\* Lines 56-67: onOpen(callback), onError(callback), onMessage(callback).
SseOn(type, cb) ==
    /\ cb \notin sseListeners[type]
    /\ sseListeners' = [sseListeners EXCEPT ![type] = @ \cup {cb}]
    /\ UNCHANGED <<outsideSse, sseSubscribed, sseClosed, sseEvents, sseLast>>

\* Lines 58, 62 and 66: the function the subscription method returned is called.
SseOff(type, cb) ==
    /\ cb \in sseListeners[type]
    /\ sseListeners' = [sseListeners EXCEPT ![type] = @ \ {cb}]
    /\ UNCHANGED <<outsideSse, sseSubscribed, sseClosed, sseEvents, sseLast>>

\* Lines 68-72: subscribe(event, callback).
SseSubscribe(type, cb) ==
    /\ <<type, cb>> \notin sseSubscribed
    /\ sseSubscribed' = sseSubscribed \cup {<<type, cb>>}
    /\ UNCHANGED <<outsideSse, sseListeners, sseClosed, sseEvents, sseLast>>

\* Lines 53-55: close().
SseClose ==
    /\ ~sseClosed
    /\ sseClosed' = TRUE
    /\ UNCHANGED <<outsideSse, sseListeners, sseSubscribed, sseEvents, sseLast>>

\* The EventSource dispatches an event of the given type: every handler for
\* the type runs (lines 28-50 and 69).
SseDispatch(type) ==
    /\ ~sseClosed
    /\ sseEvents < MaxCalls
    /\ sseEvents' = sseEvents + 1
    /\ sseLast' = [type |-> type,
                   registered |-> sseListeners[type],
                   calls |-> [cb \in SseCallbacks |->
                                CallsFor(type, cb, sseListeners, sseSubscribed)]]
    /\ UNCHANGED <<outsideSse, sseListeners, sseSubscribed, sseClosed>>

SseNext ==
    \/ \E type \in SseEventTypes, cb \in SseCallbacks : SseOn(type, cb)
    \/ \E type \in SseEventTypes, cb \in SseCallbacks : SseOff(type, cb)
    \/ \E cb \in SseCallbacks : SseSubscribe("message", cb)
    \/ SseClose
    \/ \E type \in SseEventTypes : SseDispatch(type)

SseSpec == SseInit /\ [][SseNext]_vars

(***************************************************************************)
(* Properties of the HTTP middleware.                                      *)
(***************************************************************************)
Levels == DOMAIN wraps

\* The places in the log of the events ev of wrap k (0: the transport).
Idx(ev, k) == { i \in DOMAIN log : log[i].ev = ev /\ log[i].who = k }

Settled == outcome.status \in {"fulfilled", "rejected"}

NoHookError == \A i \in DOMAIN log : log[i].value \notin {"beforeErr", "afterErr", "errorHookErr"}

\* Whether the log entry is the call of a hook or of the transport.
IsCall(e) == e.ev \in {"before", "transport", "after", "error"}

\* Whether the call y may directly follow the call x in one request: before
\* hooks from the wrap made last to the wrap made first, then the transport,
\* then after and error hooks from the wrap made first to the wrap made last.
MayFollow(x, y) ==
    CASE x.ev = "before" /\ y.ev = "before" -> wraps[x.who].id > wraps[y.who].id
      [] x.ev = "before" /\ y.ev = "transport" -> TRUE
      [] x.ev = "before" /\ y.ev = "error" -> wraps[x.who].id <= wraps[y.who].id
      [] x.ev = "transport" /\ y.ev \in {"after", "error"} -> TRUE
      [] x.ev = "after" /\ y.ev = "after" -> wraps[x.who].id < wraps[y.who].id
      [] x.ev = "after" /\ y.ev = "error" -> wraps[x.who].id <= wraps[y.who].id
      [] x.ev = "error" /\ y.ev = "error" -> wraps[x.who].id < wraps[y.who].id
      [] OTHER -> FALSE

\* C6: with any number of wraps, the before hooks of one request run from the
\* wrap made last (outermost) to the wrap made first (innermost), all before
\* the transport call; the after hooks (transport success) or the error hooks
\* (transport failure) run from the innermost wrap to the outermost, each hook
\* once, so the outermost wrap's after/error hook runs last.
C6_OnionOrder ==
    LET callSeq == SelectSeq(log, IsCall)
        count(ev) == Cardinality({ i \in DOMAIN callSeq : callSeq[i].ev = ev })
        with(hook) == Cardinality({ k \in Levels : wraps[k][hook] })
    IN /\ \A i \in 1..(Len(callSeq) - 1) : MayFollow(callSeq[i], callSeq[i + 1])
       /\ transport.state # "idle" => count("before") = with("before")
       /\ (Settled /\ transport.state = "fulfilled" /\ NoHookError) =>
             /\ outcome.status = "fulfilled"
             /\ count("after") = with("after")
             /\ count("error") = 0
       /\ (Settled /\ transport.state = "rejected") =>
             /\ outcome.status = "rejected"
             /\ count("error") = with("error")
             /\ count("after") = 0

C6_Witness ==
    /\ Len(wraps) = 2
    /\ \A k \in Levels : wraps[k].before /\ wraps[k].after /\ wraps[k].error
    /\ outcome.status = "fulfilled"
    /\ Len(log) = 10
    /\ log[1].ev = "before" /\ log[1].who = 2
    /\ log[10].ev = "afterSettled" /\ log[10].who = 2

\* C7 as stated: with A listed before B, B's before hook receives the URL as A's
\* before hook modified it, and B's after hook runs before A's after hook.
C7_FirstListedRunsFirst ==
    \A ka \in Levels, kb \in Levels : wraps[kb].id = wraps[ka].id + 1 =>
        /\ \A j \in Idx("before", kb) : \A s \in Idx("beforeSettled", ka) :
              log[s].value # "beforeErr" => log[j].url = log[s].url
        /\ \A j \in Idx("after", kb) : \A i \in Idx("after", ka) : j < i

\* C7 amended: with A listed before B, B is the outer wrap: A's before hook
\* receives the URL as B's before hook modified it, and A's after hook runs
\* before B's after hook.
C7_LastListedRunsFirst ==
    \A ka \in Levels, kb \in Levels : wraps[kb].id = wraps[ka].id + 1 =>
        /\ \A j \in Idx("before", ka) :
              \A i \in Idx("before", kb) :
                 /\ i < j
                 /\ \A s \in Idx("beforeSettled", kb) :
                       log[j].url = IF log[s].value = "url"
                                    THEN "/i" \o ToString(kb) \o log[i].url
                                    ELSE log[i].url
        /\ \A j \in Idx("after", kb) : \A i \in Idx("after", ka) : i < j

C7_Witness ==
    /\ Len(wraps) = 2
    /\ Idx("before", 2) # {} /\ Idx("before", 1) # {}
    /\ \E s \in Idx("beforeSettled", 2) : log[s].value = "url"
    /\ \E j \in Idx("before", 1) : log[j].url = "/i2/x"
    /\ Idx("after", 1) # {} /\ Idx("after", 2) # {}
    /\ outcome.status = "fulfilled"

\* C8: within one request nothing runs between the call of a hook and its
\* settlement, nor between the call of the transport method and its
\* settlement: the transport method is called only once the before hooks
\* called so far have settled, and an after or error hook only once the
\* transport call has settled.
C8_HooksAwaited ==
    /\ \A i \in DOMAIN log :
          /\ (IsCall(log[i]) /\ i < Len(log)) =>
                /\ log[i + 1].ev = log[i].ev \o "Settled"
                /\ log[i + 1].who = log[i].who
          /\ log[i].ev = "after" => transport.state = "fulfilled"
    /\ transport.state = "pending" => pending = {}
    /\ (\E h \in pending : h[2] = "before") => transport.state = "idle"

C8_Witness ==
    /\ Len(wraps) = 2
    /\ Idx("before", 1) # {} /\ Idx("before", 2) # {}
    /\ Idx("transportSettled", 0) # {}
    /\ Idx("after", 1) # {}
    /\ Idx("error", 2) # {}

\* C9: for every verb, an error hook is called with the method, the URL and the
\* body of the context after the before hook, and the error the original
\* method rejected with; when the hook returns normally the wrapped method
\* rejects with that same error, so a failed transport call whose error hooks
\* all return normally rejects with the transport's error.
C9_ErrorHookObserves ==
    /\ \A k \in Levels : \A e \in Idx("error", k) :
          /\ log[e].method = request.method
          /\ log[e].url = frames[k].context.url
          /\ log[e].body = frames[k].context.body
          /\ \A s \in Idx("beforeSettled", k) :
                log[s].value # "beforeErr" => log[e].url = log[s].url /\ log[e].body = log[s].body
          /\ (k = 1 /\ transport.state = "rejected") =>
                /\ log[e].url = transport.url
                /\ \A s \in Idx("transportSettled", 0) : log[e].value = log[s].value
          /\ \A s \in Idx("errorSettled", k) :
                log[s].value = "undefined" =>
                   /\ frames[k].pc = "rejected"
                   /\ frames[k].value = log[e].value
    /\ (/\ Settled
        /\ transport.state = "rejected"
        /\ \A i \in DOMAIN log : log[i].value # "errorHookErr") =>
          /\ outcome.status = "rejected"
          /\ \A s \in Idx("transportSettled", 0) : outcome.value = log[s].value

C9_Witness ==
    /\ Len(wraps) = 2
    /\ request.method = "put"
    /\ outcome = [status |-> "rejected", value |-> "netErr"]
    /\ \E e \in Idx("error", 1) : log[e].url = "/i1/x" /\ log[e].body = "b2"
    /\ \E s \in Idx("errorSettled", 2) : log[s].value = "undefined"

\* C10: when the transport call fails, the wrapped call rejects with the
\* transport's error, whatever the error hooks do (return, throw or reject).
C10_OriginalErrorAlways ==
    (Settled /\ transport.state = "rejected") =>
        /\ outcome.status = "rejected"
        /\ \A s \in Idx("transportSettled", 0) : outcome.value = log[s].value

(***************************************************************************)
(* Properties of the before hook's result.                                 *)
(***************************************************************************)
\* Whether log[i], log[i+1] are the call of a before hook and its fulfilment.
IsBeforeReturn(i) ==
    /\ log[i].ev = "before"
    /\ log[i + 1].ev = "beforeSettled"
    /\ log[i + 1].who = log[i].who
    /\ log[i + 1].value # "beforeErr"

\* The context after a before hook of wrap k has returned: each key the hook
\* returned has the hook's value, each other key the value the hook was called
\* with; it is the context the wrap goes on with.
BeforeResultMerged ==
    \A i \in 1..(Len(log) - 1) : IsBeforeReturn(i) =>
        LET k == log[i].who
            tag == log[i + 1].value
        IN /\ log[i + 1].url = IF tag = "url" THEN "/i" \o ToString(k) \o log[i].url
                               ELSE log[i].url
           /\ log[i + 1].headers = IF tag = "headers,body" THEN "h" \o ToString(k)
                                   ELSE log[i].headers
           /\ log[i + 1].body = IF tag = "headers,body" THEN "b" \o ToString(k)
                                ELSE log[i].body
           /\ frames[k].context.url = log[i + 1].url
           /\ frames[k].context.headers = log[i + 1].headers
           /\ frames[k].context.body = log[i + 1].body

TransportCalledUnderWraps == transport.state # "idle" /\ Len(wraps) >= 1 /\ Len(frames) >= 1

\* C12 as stated: the before hook's object result is shallow-merged into the
\* context, a non-object result changes nothing, and the transport method is
\* called with the url, the body and the headers of the merged context.
C12_TransportGetsMergedBody ==
    /\ BeforeResultMerged
    /\ TransportCalledUnderWraps =>
          /\ transport.url = frames[1].context.url
          /\ transport.headers = frames[1].context.headers
          /\ transport.body = frames[1].context.body

\* C12 amended: as above, but the body of the merged context reaches the
\* transport only for post, put and patch; get and delete are called with the
\* merged url and headers and no body.
C12_TransportGetsMerged ==
    /\ BeforeResultMerged
    /\ TransportCalledUnderWraps =>
          /\ transport.url = frames[1].context.url
          /\ transport.headers = frames[1].context.headers
          /\ transport.body = IF transport.method \in {"get", "delete"} THEN "undefined"
                              ELSE frames[1].context.body

C12_Witness ==
    /\ Len(wraps) = 2
    /\ request.method = "post"
    /\ request.optionsArg = "h0"
    /\ \E s \in Idx("beforeSettled", 2) : log[s].value = "url"
    /\ \E s \in Idx("beforeSettled", 1) : log[s].value = "headers,body"
    /\ transport.state = "pending"
    /\ transport.url = "/i2/x" /\ transport.headers = "h1" /\ transport.body = "b1"

(***************************************************************************)
(* Properties of the after hook.                                           *)
(***************************************************************************)
\* C11: for every verb, when an after hook is present and the transport call
\* succeeded, the caller receives exactly what the after hook returned (not the
\* response patched with it), and the hook was called with the method, the
\* URL of the context after the before hook, the transport result and the body.
C11_AfterReplaces ==
    (pPc = "resolved" /\ pInterceptor.after) =>
        /\ pOutcome.status = "fulfilled"
        /\ pOutcome.value = pAfterResult
        /\ DOMAIN pAfterContext = {"method", "url", "result", "body"}
        /\ pAfterContext["method"].is = pContext.method
        /\ pAfterContext["url"].is = pContext.url


(***************************************************************************)
(* Properties of the lazy delegate.                                        *)
(***************************************************************************)
\* C13: when an interceptor's before hook has put headers in the request, the
\* call the lazy delegate makes on the constructed transport delegate carries
\* those headers.
C13_HeadersReachTransport ==
    \A c \in Callers : callers[c].pc = "forwarded" =>
        HeadersOf(callers[c].method, callers[c].forwarded)
            = HeadersOf(callers[c].method, callers[c].args)

\* C17: however the calls of the lazy delegate's methods interleave,
\* createHttpDelegate is called exactly once, and every caller that goes on
\* does so with the one delegate that call produced.
C17_SingleConstruction ==
    /\ attempts <= 1
    /\ (\E c \in Callers : callers[c].pc # "idle") => attempts = 1
    /\ \A c \in Callers : callers[c].pc \in {"ensured", "forwarded"} =>
          /\ callers[c].ensured = "delegate#1"
          /\ lazyDelegate = "delegate#1"
          /\ callers[c].pc = "forwarded" => callers[c].on = "delegate#1"

C17_Witness ==
    /\ attempts = 1
    /\ callers[1].pc = "forwarded" /\ callers[1].on = "delegate#1"
    /\ callers[2].pc = "waiting"
    /\ ~lazyLoading

InterfaceKeys(kind) ==
    CASE kind = "http" -> HttpMethods
      [] kind = "websocket" -> WebSocketMethods
      [] OTHER -> ServerSentEventMethods

DelegateKinds == {"http", "websocket", "sse"}

\* C14: an object with exactly the members of one delegate interface is not
\* accepted by the detector of another kind.
C14_DetectorsExclusive ==
    fPc = "detected" =>
        \A kind \in DelegateKinds : fCreated.keys = InterfaceKeys(kind) =>
            \A other \in DelegateKinds \ {kind} : ~fDetected[other]

\* C15: an object with the members of one delegate interface is accepted by the
\* detector of its kind, and so is the delegate createDelegate returns for
\* options of the type of that kind.
C15_OwnDetectorAccepts ==
    fPc = "detected" =>
        /\ \A kind \in DelegateKinds :
              InterfaceKeys(kind) \subseteq fCreated.keys => fDetected[kind]
        /\ (fInput.hasType /\ fInput.type = "http") => fDetected.http
        /\ (fInput.hasType /\ fInput.type = "websocket") => fDetected.websocket
        /\ (fInput.hasType /\ fInput.type = "server-sent-event") => fDetected.sse

\* C16: options of a type other than http, websocket and server-sent-event, and
\* http options whose impl is none of fetch, axios and better-fetch, end in a
\* configuration error and never in a built delegate; an argument without a
\* type key is returned as it is.
C16_UnsupportedRejected ==
    /\ (fPc # "start" /\ ~fInput.hasType) =>
          fCreated.status = "returned" /\ fCreated.same /\ fCreated.keys = fInput.keys
    /\ (fPc # "start" /\ fInput.hasType
          /\ fInput.type \notin {"http", "websocket", "server-sent-event"}) =>
          fCreated.status = "thrown"
    /\ (fInput.hasType /\ fInput.type = "http"
          /\ fInput.impl \notin {"fetch", "axios", "better-fetch"}) =>
          /\ fPc # "start" => (fCreated.status = "thrown" \/ fCreated.lazy)
          /\ fPc = "built" => fBuilt \notin {"fetch", "axios", "better-fetch"}

(***************************************************************************)
(* Properties of the offline strategies.                                   *)
(***************************************************************************)
OfflineSettled == offlineCall.pc \in {"resolved", "rejected"}

IsOfflineError(e) == e \in {"[OFFLINE] No cache available and offline",
                            "[OFFLINE] Offline and no cache",
                            "[OFFLINE] Network unavailable"}

\* C19: with cache-first, a request whose key had an unexpired entry is answered
\* with the entry's data and the transport is not called; without such an
\* entry and online, the transport is called once and its result is stored
\* under the key and returned; without an entry and offline, the request
\* rejects with an offline error and the transport is not called.
C19_CacheFirst ==
    strategy = "cache-first" =>
        /\ (offlineCall.pc # "idle" /\ offlineCall.entryAtCall.present) =>
              /\ offlineCall.transportCalls = 0
              /\ offlineOutcome = [status |-> "fulfilled", value |-> offlineCall.entryAtCall.data]
        /\ (offlineCall.pc # "idle" /\ ~offlineCall.entryAtCall.present
              /\ offlineCall.onlineAtCall) =>
              /\ offlineCall.transportCalls = 1
              /\ (OfflineSettled /\ offlineCall.transportResult.status = "fulfilled") =>
                    /\ offlineOutcome = [status |-> "fulfilled",
                                         value |-> offlineCall.transportResult.value]
                    /\ offlineCall.entryAfterSuccess =
                          [present |-> TRUE, data |-> offlineCall.transportResult.value]
        /\ (offlineCall.pc # "idle" /\ ~offlineCall.entryAtCall.present
              /\ ~offlineCall.onlineAtCall) =>
              /\ offlineCall.transportCalls = 0
              /\ offlineOutcome.status = "rejected"
              /\ IsOfflineError(offlineOutcome.value)

\* C20: with network-first and online, every request calls the transport; when
\* it succeeds the entry of the key becomes the new result, which is returned;
\* when it fails, the data of the key's unexpired entry is returned if there
\* is one, and the transport's error is rethrown otherwise.
C20_NetworkFirst ==
    (strategy = "network-first" /\ offlineCall.pc # "idle" /\ offlineCall.onlineAtCall) =>
        /\ offlineCall.transportCalls = 1
        /\ (OfflineSettled /\ offlineCall.transportResult.status = "fulfilled") =>
              /\ offlineOutcome = [status |-> "fulfilled",
                                   value |-> offlineCall.transportResult.value]
              /\ offlineCall.entryAfterSuccess =
                    [present |-> TRUE, data |-> offlineCall.transportResult.value]
        /\ (OfflineSettled /\ offlineCall.transportResult.status = "rejected") =>
              IF offlineCall.entryAtFailure.present
              THEN offlineOutcome = [status |-> "fulfilled",
                                     value |-> offlineCall.entryAtFailure.data]
              ELSE offlineOutcome = [status |-> "rejected",
                                     value |-> offlineCall.transportResult.value]

\* C21: with network-only, no step of a request changes the cache; a request
\* made online calls the transport once, and one made offline rejects with
\* the offline error without calling the transport.
C21_NetworkOnly ==
    [][strategy = "network-only" =>
          /\ (offlineCall' # offlineCall => cache' = cache)
          /\ (offlineCall'.pc # "idle" /\ offlineCall'.onlineAtCall) =>
                /\ offlineCall'.transportCalls = 1
                /\ offlineCall'.pc = "resolved" =>
                      offlineOutcome' = [status |-> "fulfilled",
                                         value |-> offlineCall'.transportResult.value]
          /\ (offlineCall'.pc # "idle" /\ ~offlineCall'.onlineAtCall) =>
                /\ offlineCall'.transportCalls = 0
                /\ offlineCall'.pc = "rejected"
                /\ offlineOutcome' = [status |-> "rejected",
                                      value |-> "[OFFLINE] Network unavailable"]]_vars

C21_Witness ==
    /\ strategy = "network-only"
    /\ cache # EmptyObject
    /\ offlineCall.pc = "resolved"
    /\ offlineCall.key \in DOMAIN cache
    /\ cache[offlineCall.key].data # offlineCall.transportResult.value

\* A step in which a request reads the cache.
ReadsCache ==
    /\ offlineCall' # offlineCall
    /\ offlineCall'.cached # "undefined"
    /\ offlineCall.cached = "undefined" \/ offlineCall.pc \in {"idle", "resolved", "rejected"}

DeclaredUrl(environments, name) ==
    environments[CHOOSE i \in 1..Len(environments) : environments[i].name = name].url

\* A URL that starts with a scheme.
IsAbsoluteUrl(url) ==
    \E i \in 2..(Len(url) - 2) : SubSeq(url, i, i + 2) = <<":", "/", "/">>

RECURSIVE WithoutTrailingSlashes(_)
WithoutTrailingSlashes(str) ==
    IF Len(str) > 0 /\ str[Len(str)] = "/"
    THEN WithoutTrailingSlashes(SubSeq(str, 1, Len(str) - 1)) ELSE str

RECURSIVE WithoutLeadingSlashes(_)
WithoutLeadingSlashes(str) ==
    IF Len(str) > 0 /\ str[1] = "/" THEN WithoutLeadingSlashes(Tail(str)) ELSE str

\* C23: a request made while a declared environment is current reaches the
\* transport with that environment's base URL, one slash and the path when
\* the URL passed is relative, and with the URL passed when it is absolute;
\* the environment is the one current when the method was called.
C23_BaseUrlOfCurrentEnvironment ==
    (envCall.pc = "resolved" /\ envCall.envAtCall \in DeclaredNames(envConfig.environments)) =>
        envCall.transportUrl =
            IF IsAbsoluteUrl(envCall.url) THEN envCall.url
            ELSE WithoutTrailingSlashes(DeclaredUrl(envConfig.environments, envCall.envAtCall))
                 \o <<"/">> \o WithoutLeadingSlashes(envCall.url)

\* The explicit default, or the first declared name.
DefaultEnvironment(config) ==
    IF config.default # "undefined" THEN config.default ELSE config.environments[1].name

\* The environment the configuration selects for a requested name.
SelectedEnvironment(config, requested) ==
    IF requested \in DeclaredNames(config.environments) THEN requested
    ELSE IF config.fallback # "undefined" THEN config.fallback
    ELSE DefaultEnvironment(config)

\* C24: once setEnvironment has been called, with a declared or an undeclared
\* name, it has not thrown, the current environment is a declared name (the
\* name last requested if it is declared, else the fallback, else the
\* default) and getBaseURL is the URL declared for the current environment.
C24_CurrentIsDeclared ==
    lastSet # "none" =>
        /\ ~setThrew
        /\ currentEnv \in DeclaredNames(envConfig.environments)
        /\ currentEnv = SelectedEnvironment(envConfig, lastSet)
        /\ getBaseURL(envConfig, currentEnv) =
              JsString(DeclaredUrl(envConfig.environments, currentEnv))

(***************************************************************************)
(* Properties of the telemetry feature.                                    *)
(***************************************************************************)
\* The calls that have been started and are not in progress any more.
SettledCalls == started - Cardinality({c \in Callers : telemetryCalls[c].pc = "awaitOriginal"})

\* C25: every settled call has recorded one request event and one response
\* or error event, so that once no call is in progress the collector holds
\* two events per call and, with metrics enabled, total = success + errors;
\* also for calls of one operation that overlap.
C25_TwoEventsPerCall ==
    (\A c \in Callers : telemetryCalls[c].pc # "awaitOriginal") =>
        /\ Len(events) = 2 * SettledCalls
        /\ getMetrics(enableMetrics, metrics).total =
              getMetrics(enableMetrics, metrics).success
              + getMetrics(enableMetrics, metrics).errors

(***************************************************************************)
(* Properties of the managers of the cross-cutting features.               *)
(***************************************************************************)
\* What client i observes through its manager: cache, metrics, environment.
Observed(managers, clients, i) == managers[clients[i]]

\* C26: an operation on one client, and the application of the feature value
\* to build another client, leave what every other client observes of its
\* cache, its metrics and its current environment unchanged.
C26_ManagersIndependent ==
    [][\A j \in 1..Len(mClients) :
          mActor' # j => Observed(mManagers', mClients', j) = Observed(mManagers, mClients, j)]_vars

C26_Witness ==
    /\ Len(mClients) = 2
    /\ mActor = 1
    /\ Observed(mManagers, mClients, 1) # NewManager
    /\ Observed(mManagers, mClients, 2) = NewManager

(***************************************************************************)
(* Properties of the WebSocket middleware.                                 *)
(***************************************************************************)
\* The places of the log of the last call where ev was recorded.
WsPlaces(ev) == {i \in 1..Len(wsCall.log) : wsCall.log[i].ev = ev}

\* C27: in every call of connect, send or close the original method has run,
\* once and with the caller's argument; a before hook that is present was
\* started before it, an after hook that is present after it (when the
\* original returned); no error of a hook has reached the caller.
C27_HooksNeverBlock ==
    wsCall.method # "none" =>
        LET hooks == wsInterceptor[wsCall.method]
        IN /\ Cardinality(WsPlaces("original")) = 1
           /\ \A i \in WsPlaces("original") : wsCall.log[i].arg = wsCall.message
           /\ hooks.before # "absent" => WsPlaces("before") = {1} /\ WsPlaces("original") = {2}
           /\ (hooks.after # "absent" /\ wsCall.outcome # "originalError") =>
                 WsPlaces("after") = {Len(wsCall.log)} /\ wsCall.log[Len(wsCall.log) - 1].ev = "original"
           /\ wsCall.outcome # "hookError"

(***************************************************************************)
(* Properties of the subscription methods.                                 *)
(***************************************************************************)
\* C28: every subscription method of a WebSocket or SSE delegate has returned
\* a function to its caller, and no callback has been invoked for an event
\* that arrived after its unsubscribe function was called.
C28_UnsubscribeReturned ==
    \A i \in 1..Len(subscriptions) :
        /\ subscriptions[i].returned = "function"
        /\ ~subscriptions[i].invokedAfterUnsubscribe

(***************************************************************************)
(* Further properties of universalClient and withMethods.                  *)
(***************************************************************************)
\* The features whose returned object carries an onInit hook of their own.
HookSuppliers ==
    { k \in DOMAIN withFeatures :
         /\ withFeatures[k].kind = "const"
         /\ "onInit" \in DOMAIN withFeatures[k].out
         /\ IsCallable(withFeatures[k].out["onInit"]) }

\* Whether feature k returns an onInit entry of its own.
DefinesOnInit(k) ==
    withFeatures[k].kind = "const" /\ "onInit" \in DOMAIN withFeatures[k].out

\* C29: when universalClient returns from a composition in which every onInit
\* entry a feature returns is a hook, the hook of every feature that supplied
\* one has been called once: there are as many onInit calls as features
\* supplying a hook, all after the last feature was called.
C29_EveryHookCalled ==
    (/\ cpc \in {"return", "returned"}
     /\ \A k \in DOMAIN withFeatures : DefinesOnInit(k) => k \in HookSuppliers) =>
        /\ Cardinality(OnInitCalls) = Cardinality(HookSuppliers)
        /\ \A c \in OnInitCalls : c > Len(withFeatures)

\* Whether feature k returns a value of its own under the key name.
DefinesKey(k, name) ==
    CASE withFeatures[k].kind = "const" -> name \in DOMAIN withFeatures[k].out
      [] withFeatures[k].kind = "derive" -> name = "propB"
      [] withFeatures[k].kind = "methods" -> name = withFeatures[k].name
      [] OTHER -> FALSE

\* C30: a method that a withMethods feature defines under a name the
\* accumulator already has, and that no later feature defines again, is the
\* value of that name in the returned client.
C30_MethodReplaces ==
    cpc = "returned" =>
        \A k \in DOMAIN withFeatures :
            (/\ withFeatures[k].kind = "methods"
             /\ withFeatures[k].name \in DOMAIN FoldFeatures(withFeatures, k - 1)
             /\ \A j \in DOMAIN withFeatures : j > k => ~DefinesKey(j, withFeatures[k].name))
            => heap[rest][withFeatures[k].name] = "fn1"

(***************************************************************************)
(* The life cycle of the lazy delegate.                                    *)
(***************************************************************************)
\* The three conditions ensureDelegate tests, in the order it tests them.
DelegateBuilt == lazyDelegate # "null"
ErrorStored == lazyError # "null"
Loading == lazyLoading

\* unstarted, in-flight, ready or failed: which of them the delegate is in.
LazyState ==
    CASE DelegateBuilt -> "ready"
      [] ErrorStored -> "failed"
      [] Loading -> "in-flight"
      [] OTHER -> "unstarted"

\* What one step may do to the life cycle.
LazyTransition ==
    /\ attempts' # attempts =>
          /\ LazyState = "unstarted" /\ LazyState' = "in-flight"
          /\ \E c \in Callers : callers[c].pc = "idle" /\ callers'[c].pc = "constructing"
    /\ LazyState = "in-flight" => LazyState' \in {"in-flight", "ready", "failed"}
    /\ DelegateBuilt => (lazyDelegate' = lazyDelegate /\ LazyState' = "ready")
    /\ ErrorStored => (lazyError' = lazyError /\ LazyState' = "failed")

\* At most one of the three conditions holds, and a construction has been
\* started only if some method has been called.
LazyExclusive ==
    /\ ~(DelegateBuilt /\ ErrorStored)
    /\ ~(DelegateBuilt /\ Loading)
    /\ ~(ErrorStored /\ Loading)
    /\ attempts > 0 => \E c \in Callers : callers[c].pc # "idle"

\* C31: the lazy delegate goes unstarted -> in-flight -> ready | failed: at
\* most one of 'delegate built', 'error stored' and 'loading' holds, a
\* construction starts only in a step in which a caller's method call begins,
\* and a built delegate or a stored error is never replaced or cleared.
C31_LazyStateMachine == []LazyExclusive /\ [][LazyTransition]_vars

C31_Witness ==
    /\ LazyState = "ready"
    /\ \E c \in Callers : callers[c].pc = "forwarded"
    /\ \E c \in Callers : callers[c].pc = "waiting"

\* C32: a caller that found the construction in flight settles once the
\* construction has settled: it goes on with the built delegate if there is
\* one, and rejects with the stored error otherwise.
C32_WaitersSettle ==
    \A c \in Callers :
        (callers[c].pc = "waiting" /\ (DelegateBuilt \/ ErrorStored))
            ~> \/ DelegateBuilt /\ callers[c].pc = "forwarded" /\ callers[c].on = lazyDelegate
               \/ ErrorStored /\ callers[c].pc = "rejected" /\ callers[c].ensured = lazyError

C32_Witness ==
    /\ ErrorStored
    /\ callers[1].pc = "rejected"
    /\ callers[2].pc = "rejected" /\ callers[2].ensured = lazyError
    /\ attempts = 1

(***************************************************************************)
(* Properties of overlapping cache-first requests.                         *)
(***************************************************************************)
\* Caller b called while the call of caller a for the same key was awaiting
\* the original method, the Map had no entry under the key at either call,
\* and both calls of the original method were fulfilled.
RacedOnColdCache(a, b) ==
    /\ a \in raceCalls[b].inFlight
    /\ raceCalls[a].cold /\ raceCalls[b].cold
    /\ raceCalls[a].transport = "fulfilled"
    /\ raceCalls[b].transport = "fulfilled"

\* C33: two cache-first requests for one key that overlap on a cold cache
\* each call the transport and each return the result of their own call;
\* once both are done the Map holds, under the key, the result of the call
\* that completed last (until a later call or an eviction touches the key).
C33_RaceNotCollapsed ==
    \A a, b \in Callers : RacedOnColdCache(a, b) =>
        LET last == IF raceCalls[a].settledAt < raceCalls[b].settledAt THEN b ELSE a
        IN /\ raceCalls[a].key = raceCalls[b].key
           /\ raceCalls[a].called # raceCalls[b].called
           /\ raceTransportCalls >= 2
           /\ raceCalls[a].returned = raceCalls[a].result
           /\ raceCalls[b].returned = raceCalls[b].result
           /\ (raceSettled = raceCalls[last].settledAt /\ raceCalls[a].key \in DOMAIN raceCache)
               => raceCache[raceCalls[a].key].data = raceCalls[last].result

C33_Witness ==
    /\ RacedOnColdCache(1, 2)
    /\ raceCalls[1].result = "r1" /\ raceCalls[2].result = "r2"
    /\ raceCalls[1].settledAt = 2 /\ raceCalls[2].settledAt = 1
    /\ raceTransportCalls = 2
    /\ DOMAIN raceCache = {raceCalls[1].key}
    /\ raceCache[raceCalls[2].key].data = "r1"

(***************************************************************************)
(* Further properties of wrapHttpDelegate.                                 *)
(***************************************************************************)
\* The events the step appends to the log, as positions in the new log.
NewEvents == (Len(log) + 1)..Len(log')

\* The step is the one in which wrap k's before (after) hook throws.
HookThrows(k, hook) ==
    \E i \in NewEvents : /\ log'[i].who = k
                         /\ log'[i].ev = hook \o "Settled"
                         /\ log'[i].value = hook \o "Err"

\* The step is the one in which wrap k's error hook is called.
ErrorHookCalled(k) ==
    \E i \in NewEvents : log'[i].who = k /\ log'[i].ev = "error"

\* The original method of wrap k: wrap k-1's method, or the transport.
OriginalNotCalled(k) ==
    IF k = 1 THEN transport.state = "idle" ELSE frames[k - 1] = IdleFrame

OriginalFulfilled(k) ==
    IF k = 1 THEN transport.state = "fulfilled" ELSE frames[k - 1].pc = "resolved"

OriginalRejected(k) ==
    IF k = 1 THEN transport.state = "rejected" ELSE frames[k - 1].pc = "rejected"

\* What a step may do to the call of wrap k's method when the wrap has an
\* error hook.
ErrorHookStep(k) ==
    /\ ErrorHookCalled(k) =>
          /\ frames[k].pc \notin {"awaitError", "rejected", "resolved"}
          /\ frames'[k].pc = "awaitError"
          /\ HookThrows(k, "before") \/ HookThrows(k, "after") \/ OriginalRejected(k)'
    /\ HookThrows(k, "before") => (ErrorHookCalled(k) /\ OriginalNotCalled(k)')
    /\ HookThrows(k, "after") => (ErrorHookCalled(k) /\ OriginalFulfilled(k)')
    /\ (frames'[k].pc = "awaitError" /\ frames[k].pc # "awaitError") => ErrorHookCalled(k)
    /\ (frames'[k].pc = "rejected" /\ frames[k].pc # "rejected") => frames[k].pc = "awaitError"
    /\ frames[k].pc = "awaitError" => frames'[k].pc \in {"awaitError", "rejected"}
    /\ frames[k].pc \in {"rejected", "resolved"} => frames'[k].pc = frames[k].pc

\* C34: in one call through a wrap with an error hook, the hook is called at
\* most once, and it is called exactly when the wrap's method rejects: after
\* a throwing before hook, with the original method not called, after a
\* throwing after hook, with the original method fulfilled, and after the
\* original method rejected.  The method rejects only from the awaited error
\* hook, and once the hook is called it can only reject.
C34_ErrorHookIffRejects ==
    [][\A k \in 1..Len(frames) : wraps[k].error => ErrorHookStep(k)]_vars

C34_Witness ==
    /\ Len(frames) = 2
    /\ wraps[1].error /\ wraps[2].error
    /\ frames[1].pc = "resolved"
    /\ \A i \in DOMAIN log : log[i].ev = "error" => (log[i].who = 2 /\ log[i].value = "afterErr")
    /\ frames[2].pc = "rejected" /\ frames[2].value = "afterErr"
    /\ transport.state = "fulfilled"
    /\ outcome.status = "rejected"

\* C36: with cache-first, a call whose key has an entry stored from an
\* earlier successful result and still within its TTL is answered with the
\* stored value, whatever it is, and does not call the original method.
C36_StoredResultServed ==
    [][\A c \in Callers :
          (/\ raceCalls[c].pc = "idle"
           /\ raceCalls'[c].pc # "idle"
           /\ LiveEntry(raceCache, raceCalls'[c].key, raceNow).present) =>
              /\ raceCalls'[c].pc = "resolved"
              /\ raceCalls'[c].returned = raceCache[raceCalls'[c].key].data
              /\ raceTransportCalls' = raceTransportCalls]_vars

(***************************************************************************)
(* Further properties of the offline feature.                              *)
(***************************************************************************)
\* The step in which the original method of the request in progress rejects.
TransportFails ==
    /\ offlineCall.pc = "awaitOriginal"
    /\ offlineCall'.transportResult.status = "rejected"

\* The step in which a wrapped method is called.
RequestBegins == offlineCall'.id # offlineCall.id

\* No entry is added, replaced or refreshed by the step.
NothingStored == \A k \in DOMAIN cache' : k \in DOMAIN cache /\ cache'[k] = cache[k]

\* C35 as stated: the request whose transport call fails has left the cache
\* as it was, when it was called and when the call failed.
C35_FailureLeavesCache ==
    [][TransportFails => (cache' = cache /\ ~offlineCall'.evicted)]_vars

\* C35, amended: a request whose transport call fails adds, replaces and
\* refreshes nothing; the one change it can make is to delete the entry
\* under its own key when that entry has expired (at the call with
\* cache-first, at the failure with network-first), so the size is the same
\* or one less.
C35_FailureStoresNothing ==
    [][(TransportFails \/ RequestBegins) =>
          /\ NothingStored
          /\ \A k \in DOMAIN cache \ DOMAIN cache' :
                /\ k = offlineCall'.key
                /\ now - cache[k].timestamp > cache[k].ttl
                /\ strategy # "network-only"
                /\ TransportFails => strategy = "network-first"
          /\ Cardinality(DOMAIN cache') \in {Cardinality(DOMAIN cache),
                                              Cardinality(DOMAIN cache) - 1}]_vars

C35_Witness ==
    /\ strategy = "network-first"
    /\ offlineCall.pc = "rejected"
    /\ offlineCall.transportResult.status = "rejected"
    /\ offlineCall.evicted
    /\ offlineCall.key \notin DOMAIN cache

(***************************************************************************)
(* Properties of the latency figures.                                      *)
(***************************************************************************)
\* a <= b for the numbers of the model.
Leq(a, b) == a.big < b.big \/ (a.big = b.big /\ a.n <= b.n)

\* min <= sum / count <= max, for a fraction with count > 0.
AverageBetween(avg, lo, hi) ==
    /\ lo.big < 0 \/ (lo.big = 0 /\ lo.n * avg.count <= avg.sum)
    /\ hi.big > 0 \/ (hi.big = 0 /\ avg.sum <= hi.n * avg.count)

\* C37: with metrics enabled, what getMetrics returns has
\* latency.min <= latency.avg <= latency.max at every time from the creation
\* of the collector on, and once a positive duration has been recorded min
\* and max are the smallest and the largest of the positive durations.
C37_LatencyOrdered ==
    latEnabled =>
        LET l == getMetricsLatency(latEnabled, latency)
            latencies == Positive(latEvents)
        IN /\ AverageBetween(l.avg, l.min, l.max)
           /\ Leq(l.min, l.max)
           /\ latencies # <<>> => (l.min = Ms(Minimum(latencies)) /\ l.max = Ms(Maximum(latencies)))

(***************************************************************************)
(* Properties of the WebSocket delegate's reconnection.                    *)
(***************************************************************************)
\* C38: after close(), and until the user calls connect() again, no
\* reconnect timer is pending and the delegate has no socket.
C38_CloseIsFinal ==
    userOp = "close" => (timers = 0 /\ ~reconnectTimer /\ socket = 0)

\* C39: at most one reconnect timer is pending; and when the user has called
\* connect() and the server has closed no connection, the socket connect()
\* made stays the delegate's socket: no reconnect timer is pending, no socket
\* has been closed by a reconnection, and the current socket is connecting or
\* open.
C39_ReplacementKept ==
    /\ timers <= 1
    /\ (userOp = "connect" /\ ~dropped) =>
          /\ timers = 0
          /\ \A i \in DOMAIN sockets : sockets[i].closedBy # "reconnect"
          /\ socket = Len(sockets)
          /\ sockets[socket].state \in {"connecting", "open"}

(***************************************************************************)
(* Properties of the SSE delegate.                                         *)
(***************************************************************************)
\* C40: a default message event calls each callback registered through
\* onMessage exactly once (a callback also given to subscribe('message', ...)
\* is called once more for that subscription).
C40_MessageDeliveredOnce ==
    sseLast.type = "message" =>
        \A cb \in sseLast.registered :
            sseLast.calls[cb] = 1 + (IF <<"message", cb>> \in sseSubscribed THEN 1 ELSE 0)

====
